---- MODULE Spec2Model ----
(***************************************************************************)
(* Resilience layer of mcp-japanese-parser (src/src/error-handler.ts):     *)
(* the in-memory per-client rate limiter (checkRateLimit,                  *)
(* cleanupRateLimits), the CircuitBreaker class and withTimeout; and of    *)
(* the engine bridge (src/src/ichiran.ts): exec and cleanEvalOutput; and   *)
(* of the call-tool handler of the server (index.ts, kept as               *)
(* src/unnamed/part_003) with handleToolError.                             *)
(*                                                                         *)
(* A string whose content matters is a sequence of pieces (characters, or  *)
(* the literals the code searches for), so that trim, includes, indexOf,   *)
(* substring and slice do what they do in the program.                     *)
(*                                                                         *)
(* The clock Date.now() is the variable now.  It never goes backwards and  *)
(* is observed on a grid of instants around the multiples of the 60000 ms  *)
(* window, so that an age of exactly 60000 ms (still fresh) and of         *)
(* 60001 ms (expired) both occur.                                          *)
(***************************************************************************)
EXTENDS Integers, Naturals, Sequences, FiniteSets, TLC

(***************************************************************************)
(* Bounds of the model.                                                    *)
(***************************************************************************)
\* the clock is observed at Epoch + k * 60000 + d, k <= MaxPeriods, d <= MaxOffset
Epoch == 1000000
MaxPeriods == 1
MaxOffset == 1
\* RATE_LIMIT_MAX ranges over 1..MaxRateLimit
MaxRateLimit == 2
\* at most RATE_LIMIT_MAX + MaxExtraCalls calls of a client are made in one window
MaxExtraCalls == 2

\* the failure threshold of the breaker ranges over 1..MaxThreshold
MaxThreshold == 3
\* the failure count is followed up to failureThreshold + MaxOvershoot
MaxOvershoot == 2
\* operations of the breaker that can be in flight at the same time
MaxInFlight == 2

\* the longest stdout, and the longest stderr or exception message, given to exec
MaxStdoutLen == 3
MaxStderrLen == 2
\* the longest output given to cleanEvalOutput
MaxOutputLen == 8
\* the value of RATE_LIMIT_MAX that the server is run with
MaxToolRateLimit == 6
\* the longest message of an error given to handleToolError
MaxMessageLen == 2

(***************************************************************************)
(* Program constants.                                                      *)
(***************************************************************************)
\* error-handler.ts:18  const RATE_LIMIT_WINDOW = 60 * 1000
RATE_LIMIT_WINDOW == 60 * 1000

\* error-handler.ts:19  parseInt(process.env.RATE_LIMIT_MAX ?? '60')
DefaultRateLimitMax == 60
\* error-handler.ts:212  private readonly failureThreshold = 5
DefaultFailureThreshold == 5
\* error-handler.ts:213  private readonly timeoutMs = 60000
DefaultTimeoutMs == 60000
\* error-handler.ts:221
BreakerOpenError == "Circuit breaker is OPEN - service unavailable"

\* what an operation can settle with: a value or an error of its own
Values == {"v1", "v2"}
Errors == {"e1", "e2"}
OpOutcomes == {[kind |-> "value", payload |-> v] : v \in Values}
              \cup {[kind |-> "error", payload |-> e] : e \in Errors}
NoOutcome == [kind |-> "none", payload |-> ""]

Slots == 1..MaxInFlight

\* client identifiers; "default" is the default value of the parameter clientId
Clients == {"default", "a"}
\* a call that passes no client id
Undefined == "<undefined>"
ClientArgs == Clients \cup {Undefined}

\* part_003:31  parseInt(process.env.ICHIRAN_TIMEOUT ?? '30000')
DefaultIchiranTimeout == 30000
\* part_003:276  the timeout of the health check
HealthCheckTimeout == 5000
\* the values of timeoutMs that withTimeout is called with
TimeoutsMs == {HealthCheckTimeout, DefaultIchiranTimeout}
\* part_003:196, 277: two of the labels that withTimeout is called with
OperationNames == {"parseJapaneseText", "healthCheck"}

Instants == {Epoch + k * RATE_LIMIT_WINDOW + d : k \in 0..MaxPeriods, d \in 0..MaxOffset}

VARIABLES
    now,             \* Date.now()
    RATE_LIMIT_MAX,  \* error-handler.ts:19, parseInt(process.env.RATE_LIMIT_MAX ?? '60')
    requestCounts,   \* the Map<string, RequestMetrics>: a function on the stored client ids
    rlLast,          \* history: the last limiter operation, its argument and its result
    gWin,            \* history: per client, the start of the current window and the calls made in it
    audit,           \* history: the client whose admissions are recorded, or NoAudit
    admitted,        \* history: the times of the calls of that client admitted in the last 60000 ms
    breaker,         \* the CircuitBreaker instance: failures, lastFailureTime, state and its two parameters
    calls,           \* the execute calls suspended at 'await operation()', and how each was let through
    cbLast,          \* history: the last breaker event and what the execute call settled with
    run,             \* history: whether all calls so far ran one after another and failed, and how many
    streak,          \* history: while calls ran one after another, the failures since the last success
    wt,              \* one call of withTimeout: its arguments, its timer, the operation promise and the race
    wtLast,          \* history: the order in which operation and timer settled, and the writes of the result
    execCall,        \* one call of exec: the outcome of the subprocess and what exec settles with
    cleanCall,       \* one call of cleanEvalOutput: its argument and what it returns
    NODE_ENV,        \* process.env.NODE_ENV
    toolLast,        \* history: the last call-tool request, what happened to it and the handler's outcome
    errorCall,       \* one call of handleToolError: its argument and what it returns
    twin,            \* a second, independent run of the program given the same calls: its map,
                     \* its breaker, its suspended calls, and the last results of both runs
    tally            \* history: per execute call, the invocations of its operation, the outcomes
                     \* recorded for it and the subprocesses started by it

rlVars == <<RATE_LIMIT_MAX, requestCounts, rlLast, gWin>>
cbVars == <<breaker, calls, cbLast, run, streak>>
wtVars == <<wt, wtLast>>
\* the variables that neither the limiter nor the breaker touches
pbVars == <<execCall, cleanCall>>
toolVars == <<NODE_ENV, toolLast, errorCall>>
twinVars == <<twin>>
tallyVars == <<tally>>
restVars == <<wtVars, pbVars, toolVars, twinVars, tallyVars>>
vars == <<now, RATE_LIMIT_MAX, requestCounts, rlLast, gWin, audit, admitted, breaker, calls, cbLast, run,
          streak, wt, wtLast, execCall, cleanCall, NODE_ENV, toolLast, errorCall,
          twin, tally>>

(***************************************************************************)
(* Map helpers.                                                            *)
(***************************************************************************)
\* Map.prototype.set
MapSet(m, k, v) == [x \in (DOMAIN m) \cup {k} |-> IF x = k THEN v ELSE m[x]]
\* Map.prototype.delete applied to every key of ks
MapDeleteAll(m, ks) == [x \in (DOMAIN m) \ ks |-> m[x]]

EmptyMap == [x \in {} |-> 0]
\* history value for "no client's admissions are recorded"
NoAudit == "<none>"
\* history value for "the client had no window"
NoWindow == [timestamp |-> 0 - 1, count |-> 0]

(***************************************************************************)
(* checkRateLimit, error-handler.ts:24-41                                  *)
(***************************************************************************)
\* variant: the id passed is ignored and every call uses the key 'default'
DefaultClientId_shared(arg) == "default"

\* the default parameter value: clientId = 'default'
DefaultClientId(arg) == IF arg = Undefined THEN "default" ELSE arg

\* variant: only a missing entry is initialised, an old window is never reset
NeedsReset_noExpiry(m, clientId, t) == clientId \notin DOMAIN m

\* line 28: !existing || now - existing.timestamp > RATE_LIMIT_WINDOW
NeedsReset(m, clientId, t) ==
    \/ clientId \notin DOMAIN m
    \/ t - m[clientId].timestamp > RATE_LIMIT_WINDOW

\* variant: off by one, > for >=
LimitReached_offByOne(existing, max) == existing.count > max

\* line 34: existing.count >= RATE_LIMIT_MAX
LimitReached(existing, max) == existing.count >= max

\* line 30: the window installed by a reset
FreshWindow(t) == [timestamp |-> t, count |-> 1]

\* variant: the increment is lost
Incremented_lost(existing) == existing

\* line 39: existing.count++
Incremented(existing) == [existing EXCEPT !.count = existing.count + 1]

\* variant: the counter is incremented before the limit is tested, so rejected calls count too
checkRateLimitFn_countsRejected(m, arg, t, max) ==
    LET clientId == DefaultClientId(arg) IN
    IF NeedsReset(m, clientId, t)
    THEN [counts |-> MapSet(m, clientId, FreshWindow(t)), result |-> FALSE]
    ELSE [counts |-> MapSet(m, clientId, Incremented(m[clientId])),
          result |-> LimitReached(m[clientId], max)]

\* the whole function: the map after the call and the value returned
checkRateLimitFn(m, arg, t, max) ==
    LET clientId == DefaultClientId(arg) IN
    IF NeedsReset(m, clientId, t)
    THEN [counts |-> MapSet(m, clientId, FreshWindow(t)), result |-> FALSE]
    ELSE IF LimitReached(m[clientId], max)
         THEN [counts |-> m, result |-> TRUE]
         ELSE [counts |-> MapSet(m, clientId, Incremented(m[clientId])), result |-> FALSE]

(***************************************************************************)
(* cleanupRateLimits, error-handler.ts:46-53                               *)
(***************************************************************************)
\* variant: >= for >, a window of age exactly 60000 ms is swept
SweepExpired_inclusive(metrics, t) == t - metrics.timestamp >= RATE_LIMIT_WINDOW

\* line 49: now - metrics.timestamp > RATE_LIMIT_WINDOW
SweepExpired(metrics, t) == t - metrics.timestamp > RATE_LIMIT_WINDOW

\* variant: the sweep removes every window
cleanupRateLimitsFn_all(m, t) == EmptyMap

cleanupRateLimitsFn(m, t) ==
    MapDeleteAll(m, {c \in DOMAIN m : SweepExpired(m[c], t)})

(***************************************************************************)
(* CircuitBreaker, error-handler.ts:206-252                                *)
(***************************************************************************)
\* lines 207-214: the fields of a new instance
NewCircuitBreaker(failureThreshold, timeoutMs) ==
    [failures |-> 0, lastFailureTime |-> 0, state |-> "CLOSED",
     failureThreshold |-> failureThreshold, timeoutMs |-> timeoutMs]

\* variant: >= for >, a call made exactly timeoutMs after the last failure is let through
CooldownElapsed_inclusive(b, t) == t - b.lastFailureTime >= b.timeoutMs

\* line 218: Date.now() - this.lastFailureTime > this.timeoutMs
CooldownElapsed(b, t) == t - b.lastFailureTime > b.timeoutMs

\* lines 217-223: the entry of execute; admit is false when the call throws the breaker-open error
executeEntry(b, t) ==
    IF b.state = "OPEN"
    THEN IF CooldownElapsed(b, t)
         THEN [breaker |-> [b EXCEPT !.state = "HALF_OPEN"], admit |-> TRUE]
         ELSE [breaker |-> b, admit |-> FALSE]
    ELSE [breaker |-> b, admit |-> TRUE]

\* variant: the state is set to CLOSED but the failure count is kept
onSuccess_keepsCount(b) == [b EXCEPT !.state = "CLOSED"]

\* variant: the failure count is reset but the state is left as it is
onSuccess_onlyCount(b) == [b EXCEPT !.failures = 0]

\* lines 235-238
onSuccess(b) == [b EXCEPT !.failures = 0, !.state = "CLOSED"]

\* variant: off by one, > for >=
onFailure_offByOne(b, t) ==
    LET f == b.failures + 1 IN
    [b EXCEPT !.failures = f, !.lastFailureTime = t,
              !.state = IF f > b.failureThreshold THEN "OPEN" ELSE b.state]

\* lines 240-247
onFailure(b, t) ==
    LET f == b.failures + 1 IN
    [b EXCEPT !.failures = f, !.lastFailureTime = t,
              !.state = IF f >= b.failureThreshold THEN "OPEN" ELSE b.state]

\* variant: the catch block replaces the operation's error by the breaker-open error
executeOutcome_masksError(opOutcome) ==
    IF opOutcome.kind = "error"
    THEN [kind |-> "error", payload |-> BreakerOpenError]
    ELSE opOutcome

\* lines 226-232: 'return result' and 'throw error' hand the operation's outcome on
executeOutcome(opOutcome) == opOutcome

\* lines 249-251
\* variant: an OPEN breaker is reported as if its cooldown had been applied
getStateFn_eager(b) == IF b.state = "OPEN" THEN "HALF_OPEN" ELSE b.state

getStateFn(b) == b.state

(***************************************************************************)
(* withTimeout, error-handler.ts:185-201.  A promise is its outcome, or    *)
(* NoOutcome while it is pending.                                          *)
(***************************************************************************)
Digits == <<"0", "1", "2", "3", "4", "5", "6", "7", "8", "9">>

\* line 194: timeoutMs.toString() of a non-negative integer, its decimal digits
RECURSIVE Decimal(_)
Decimal(n) == IF n < 10 THEN Digits[n + 1] ELSE Decimal(n \div 10) \o Digits[(n % 10) + 1]

\* variant: the label is left out of the message
TimeoutMessage_noLabel(operationName, timeoutMs) ==
    "Operation timed out after " \o Decimal(timeoutMs) \o "ms"

\* line 194: the template literal
TimeoutMessage(operationName, timeoutMs) ==
    "Operation '" \o operationName \o "' timed out after " \o Decimal(timeoutMs) \o "ms"

\* lines 192-196: what the timer callback rejects timeoutPromise with
timeoutRejection(operationName, timeoutMs) ==
    [kind |-> "error", payload |-> TimeoutMessage(operationName, timeoutMs)]

\* variant: only a fulfilment of the operation settles the race, its rejection is dropped
RaceSettle_valueOnly(result, outcome) ==
    IF result = NoOutcome /\ outcome.kind # "error" THEN outcome ELSE result

\* variant: every settling promise overwrites the result
RaceSettle_lastWins(result, outcome) ==
    IF outcome = NoOutcome THEN result ELSE outcome

\* line 200: Promise.race settles as the first of its promises to settle does, and a
\* promise that is settled stays as it is
RaceSettle(result, outcome) ==
    IF result = NoOutcome THEN outcome ELSE result

(***************************************************************************)
(* String operations on sequences of pieces.                               *)
(***************************************************************************)
\* the white space that occurs in the model's strings
Whitespace == {" ", "\n"}
Quote == "\""

\* all strings of at most n pieces of the alphabet
TextsOver(alphabet, n) == UNION {[1..k -> alphabet] : k \in 0..n}

RECURSIVE TrimStart(_)
TrimStart(s) == IF s # <<>> /\ Head(s) \in Whitespace THEN TrimStart(Tail(s)) ELSE s

RECURSIVE TrimEnd(_)
TrimEnd(s) ==
    IF s # <<>> /\ s[Len(s)] \in Whitespace THEN TrimEnd(SubSeq(s, 1, Len(s) - 1)) ELSE s

\* String.prototype.trim
Trim(s) == TrimEnd(TrimStart(s))

\* String.prototype.indexOf: the first position (from 0) at which needle occurs, or -1
IndexOf(s, needle) ==
    LET hits == {i \in 0..(Len(s) - Len(needle)) : SubSeq(s, i + 1, i + Len(needle)) = needle}
    IN IF hits = {} THEN 0 - 1 ELSE CHOOSE i \in hits : \A j \in hits : i <= j

\* String.prototype.includes
Includes(s, needle) == IndexOf(s, needle) >= 0

\* String.prototype.startsWith, endsWith
StartsWith(s, prefix) == Len(s) >= Len(prefix) /\ SubSeq(s, 1, Len(prefix)) = prefix
EndsWith(s, suffix) ==
    Len(s) >= Len(suffix) /\ SubSeq(s, Len(s) - Len(suffix) + 1, Len(s)) = suffix

\* String.prototype.substring(start, end): positions from 0, end excluded; an index is
\* clamped to 0..length and the two are swapped when start > end
Substring(s, start, end) ==
    LET Clamp(x) == IF x < 0 THEN 0 ELSE IF x > Len(s) THEN Len(s) ELSE x
        a == Clamp(start)
        b == Clamp(end)
    IN IF a <= b THEN SubSeq(s, a + 1, b) ELSE SubSeq(s, b + 1, a)

\* String.prototype.slice(start, end): a negative index counts from the end; the result
\* is empty when start is not before end
Slice(s, start, end) ==
    LET Norm(x) == IF x < 0 THEN (IF Len(s) + x < 0 THEN 0 ELSE Len(s) + x)
                   ELSE IF x > Len(s) THEN Len(s) ELSE x
        a == Norm(start)
        b == Norm(end)
    IN IF a >= b THEN <<>> ELSE SubSeq(s, a + 1, b)

(***************************************************************************)
(* exec, ichiran.ts:281-347.  The subprocess either completes with an exit *)
(* code, stdout and stderr (nothrow: a non-zero exit does not throw), or   *)
(* the await throws.                                                       *)
(***************************************************************************)
\* ichiran.ts:270  process.env.ICHIRAN_CONTAINER_NAME ?? 'ichiran-main-1'
containerName == "ichiran-main-1"

\* result.exitCode is null when the process was ended by a signal
NullExitCode == 0 - 1
ExitCodes == {0, 1, NullExitCode}

\* the pieces of stdout, and those of stderr and of exception messages
StdoutPieces == {" ", "\n", "x"}
StderrPieces == {"No such container", "timeout", "x"}

\* what the await of line 290 can throw: an Error, or a value that is no Error (message
\* is then String(error))
ThrownErrors == {[class |-> c, message |-> m] :
                     c \in {"Error", "NotAnError"}, m \in TextsOver(StderrPieces, MaxStderrLen)}

SubprocessOutcomes ==
    {[kind |-> "exit", exitCode |-> c, stdout |-> out, stderr |-> err] :
         c \in ExitCodes, out \in TextsOver(StdoutPieces, MaxStdoutLen),
         err \in TextsOver(StderrPieces, MaxStderrLen)}
    \cup {[kind |-> "throw", error |-> e] : e \in ThrownErrors}

\* lines 256-265; NoDetails is the omitted third argument
NoDetails == [undefined |-> TRUE]
IchiranError(message, code, details) ==
    [class |-> "IchiranError", message |-> message, code |-> code, details |-> details]

\* lines 287-325, the try block: what it returns or throws
execTry(o) ==
    IF o.kind = "throw"
    THEN [kind |-> "error", payload |-> o.error]
    ELSE IF o.exitCode # 0
         THEN IF Includes(o.stderr, <<"No such container">>)
              THEN [kind |-> "error",
                    payload |-> IchiranError(<<"Container '", containerName, "' not running">>,
                                             "CONTAINER_NOT_FOUND", NoDetails)]
              ELSE [kind |-> "error",
                    payload |-> IchiranError(<<"Command failed: ">> \o o.stderr,
                                             "COMMAND_FAILED", [exitCode |-> o.exitCode])]
         ELSE [kind |-> "value", payload |-> Trim(o.stdout)]

\* variant: a failed command is run a second time
execSpawns_retry(o) == IF execTry(o).kind = "error" THEN 2 ELSE 1

\* lines 289-292: the subprocesses that one call of exec starts; the only place where one
\* is started is the try block, outside any loop, and the catch block starts none
execSpawns(o) == 1

\* variant: the test for a timeout comes before the test for an IchiranError
execCatch_timeoutFirst(error) ==
    IF error.class \in {"Error", "IchiranError"} /\ Includes(error.message, <<"timeout">>)
    THEN IchiranError(<<"Processing timeout exceeded">>, "TIMEOUT", NoDetails)
    ELSE IF error.class = "IchiranError" THEN error
    ELSE IchiranError(<<"Execution failed: ">> \o error.message, "EXECUTION_ERROR",
                      [originalError |-> error])

\* lines 326-346, the catch block: the error that it throws
execCatch(error) ==
    IF error.class = "IchiranError" THEN error
    ELSE IF error.class = "Error" /\ Includes(error.message, <<"timeout">>)
    THEN IchiranError(<<"Processing timeout exceeded">>, "TIMEOUT", NoDetails)
    ELSE IchiranError(<<"Execution failed: ">> \o error.message, "EXECUTION_ERROR",
                      [originalError |-> error])

\* the whole function: what the promise returned by exec settles with
execFn(o) ==
    LET t == execTry(o) IN
    IF t.kind = "error" THEN [kind |-> "error", payload |-> execCatch(t.payload)] ELSE t

NoExecCall == [outcome |-> [kind |-> "none"], done |-> TRUE, settled |-> NoOutcome]

(***************************************************************************)
(* cleanEvalOutput, ichiran.ts:417-432                                     *)
(***************************************************************************)
\* the characters of the outputs
OutputPieces == {Quote, " ", "\n", "a"}

\* the literal '" \n' of lines 422 and 423
QuoteSpaceNewline == <<Quote, " ", "\n">>

cleanEvalOutputFn(output) ==
    LET c0 == Trim(output)
        c1 == IF StartsWith(c0, <<Quote>>) /\ Includes(c0, QuoteSpaceNewline)
              THEN Substring(c0, 1, IndexOf(c0, QuoteSpaceNewline))
              ELSE c0
        c2 == IF StartsWith(c1, <<Quote>>) /\ EndsWith(c1, <<Quote>>)
              THEN Slice(c1, 1, 0 - 1)
              ELSE c1
    IN Trim(c2)

NoCleanCall == [output |-> <<>>, done |-> TRUE, returned |-> <<>>]

(***************************************************************************)
(* The engine functions the tools call, ichiran.ts:368-475, as functions   *)
(* of the outcome of the subprocess.                                       *)
(***************************************************************************)
\* a function that returns x, a function that throws e
Returned(x) == [kind |-> "value", payload |-> x]
Thrown(e) == [kind |-> "error", payload |-> e]

\* a string without its white space
RECURSIVE Solid(_)
Solid(s) ==
    IF s = <<>> THEN <<>>
    ELSE IF Head(s) \in Whitespace THEN Solid(Tail(s)) ELSE <<Head(s)>> \o Solid(Tail(s))

\* variant: the decode failure is wrapped like a failure of the engine
JsonParse_asExecutionError(text) ==
    LET t == Solid(text)
        n == Len(t)
    IN IF n >= 2 /\ n % 2 = 0 /\ \A i \in 1..n : t[i] = IF 2 * i <= n THEN "[" ELSE "]"
       THEN Returned([depth |-> n \div 2])
       ELSE Thrown(IchiranError(<<"Execution failed: ">>, "EXECUTION_ERROR", NoDetails))

\* JSON.parse on strings made of '[', ']', white space and other characters: the
\* well-formed ones are the nested arrays [], [[]], ... with white space anywhere between
\* the brackets; every other string throws a SyntaxError
JsonParse(text) ==
    LET t == Solid(text)
        n == Len(t)
    IN IF n >= 2 /\ n % 2 = 0 /\ \A i \in 1..n : t[i] = IF 2 * i <= n THEN "[" ELSE "]"
       THEN Returned([depth |-> n \div 2])
       ELSE Thrown([class |-> "SyntaxError", message |-> <<"Unexpected token in JSON">>])

\* JSON.stringify of such a value
JsonStringify(v) == [i \in 1..(2 * v.depth) |-> IF i <= v.depth THEN "[" ELSE "]"]

\* lines 440 and 454: return JSON.parse(result), result being what exec settled with
analyzeReturn(result) ==
    IF result.kind = "error" THEN result ELSE JsonParse(result.payload)

\* lines 437-455: analyze and analyzeWithLimit (text and limit valid)
analyzeFn(sub) == analyzeReturn(execFn(sub))

\* lines 387 and 411: return this.cleanEvalOutput(result)
romanizeReturn(result) ==
    IF result.kind = "error" THEN result ELSE Returned(cleanEvalOutputFn(result.payload))

\* lines 368-412: romanizeWithScheme and romanizeWithSchemeAndInfo
romanizeWithSchemeFn(sub) == romanizeReturn(execFn(sub))

\* variant: no catch block, a failure of exec is thrown on
healthCheckFn_rethrows(sub) ==
    IF execFn(sub).kind = "value" THEN Returned(TRUE) ELSE execFn(sub)

\* lines 468-475
healthCheckFn(sub) == Returned(execFn(sub).kind = "value")

(***************************************************************************)
(* handleToolError, validateToolInput and sanitizeJapaneseText,            *)
(* error-handler.ts:61-164                                                 *)
(***************************************************************************)
\* new Error(message)
PlainError(message) == [class |-> "Error", message |-> message]
NoError == [class |-> "none", message |-> <<>>]

\* the classes whose instances are instances of Error
ErrorClasses == {"Error", "SyntaxError", "IchiranError"}

\* a response with one text item; an error response has isError: true in addition
TextContent(text) == [content |-> <<[type |-> "text", text |-> text]>>]
ErrorResponse(text) == [content |-> <<[type |-> "text", text |-> text]>>, isError |-> TRUE]

\* error.stack: the stack given with the error (Undefined when it was deleted); an error
\* made by the program itself has the stack the runtime gave it, a text that is not
\* looked into
StackOf(error) == IF "stack" \in DOMAIN error THEN error.stack ELSE "<stack>"

\* line 86: error.stack ?? ''
StackOrEmpty(error) == IF StackOf(error) = Undefined THEN "" ELSE StackOf(error)

\* the values of process.env.NODE_ENV
Environments == {"development", "production", "test", Undefined}

\* variant: the details are left out in production only
handleToolErrorFn_unlessProduction(error, env) ==
    IF error.class = "IchiranError"
    THEN ErrorResponse(<<"Ichiran Error [", error.code, "]: ">> \o error.message)
    ELSE IF error.class \in ErrorClasses
    THEN ErrorResponse(IF env # "production"
                       THEN <<"Internal Error: ">> \o error.message
                                \o <<"\n", StackOrEmpty(error)>>
                       ELSE <<"An internal error occurred. Please try again.">>)
    ELSE ErrorResponse(<<"An unknown error occurred. Please try again.">>)

\* lines 61-109
handleToolErrorFn(error, env) ==
    IF error.class = "IchiranError"
    THEN ErrorResponse(<<"Ichiran Error [", error.code, "]: ">> \o error.message)
    ELSE IF error.class \in ErrorClasses
    THEN ErrorResponse(IF env = "development"
                       THEN <<"Internal Error: ">> \o error.message
                                \o <<"\n", StackOrEmpty(error)>>
                       ELSE <<"An internal error occurred. Please try again.">>)
    ELSE ErrorResponse(<<"An unknown error occurred. Please try again.">>)

\* the pieces of the messages, and the stacks, of the errors given to handleToolError
MessagePieces == {"secret", "x"}
Stacks == {Undefined, "at f (a.js:1:1)", "at g (b.js:2:2)"}

\* the values given to handleToolError: Errors that are no IchiranError, with and without
\* stack; IchiranErrors; and a value that is no Error
HandledErrors ==
    {[class |-> c, message |-> m, stack |-> st] :
         c \in {"Error", "SyntaxError"}, m \in TextsOver(MessagePieces, MaxMessageLen),
         st \in Stacks}
    \cup {IchiranError(m, "COMMAND_FAILED", NoDetails) :
              m \in TextsOver(MessagePieces, MaxMessageLen)}
    \cup {[class |-> "NotAnError", message |-> <<>>]}

NoErrorCall == [error |-> [class |-> "none", message |-> <<>>], done |-> TRUE,
                returned |-> TextContent(<<>>)]

\* the arguments of a request: valid, with the required text missing, or with a text of
\* white space only
ToolArgs == {"valid", "missing", "blank"}

\* lines 114-135 with the schemas of part_003:49-87: a missing field is the Zod issue
\* 'Required'; a blank text has the length the schema asks for; the schema of
\* health_check asks for no field
validateToolInputFn(args, toolName) ==
    IF args = "missing" /\ toolName # "health_check"
    THEN Thrown(PlainError(<<"Invalid input for ", toolName, ":\n", "text", ": ", "Required">>))
    ELSE Returned(args)

\* lines 140-164
sanitizeJapaneseTextFn(args) ==
    IF args = "blank"
    THEN Thrown(PlainError(<<"Text cannot be empty after sanitization">>))
    ELSE Returned(args)

(***************************************************************************)
(* The call-tool handler and the tools, part_003:122-295.  A request is    *)
(* handled in one piece: the subprocess outcome sub and whether the timer  *)
(* of withTimeout fires before the engine function settles are inputs.     *)
(***************************************************************************)
ToolNames == {"parse_japanese_text", "romanize_japanese", "analyze_kanji", "health_check"}
\* a name that is none of the tools
NoSuchTool == "no_such_tool"

\* the outcomes of the subprocess that requests are run against
ToolOutcomes ==
    {[kind |-> "exit", exitCode |-> 0, stdout |-> <<"[", "]", "\n">>, stderr |-> <<>>],
     [kind |-> "exit", exitCode |-> 0, stdout |-> <<"x">>, stderr |-> <<>>],
     [kind |-> "exit", exitCode |-> 1, stdout |-> <<>>, stderr |-> <<"No such container">>],
     [kind |-> "exit", exitCode |-> 1, stdout |-> <<>>, stderr |-> <<"x">>],
     [kind |-> "throw", error |-> [class |-> "Error", message |-> <<"timeout">>]],
     [kind |-> "throw", error |-> [class |-> "Error", message |-> <<"x">>]]}

\* the subprocess ends with that outcome before the timer of withTimeout fires
InTime(o) == [sub |-> o, timedOut |-> FALSE]
\* the timer fires first; the subprocess ends later, and nothing awaits its outcome
TooLate == [sub |-> [kind |-> "exit", exitCode |-> 0, stdout |-> <<"[", "]", "\n">>,
                     stderr |-> <<>>],
            timedOut |-> TRUE]

\* the requests: every tool with valid arguments and every course of the engine, and
\* every name with arguments that do not reach the engine
Requests ==
    {[name |-> n, args |-> "valid", engine |-> InTime(o)] : n \in ToolNames, o \in ToolOutcomes}
    \cup {[name |-> n, args |-> "valid", engine |-> TooLate] : n \in ToolNames \cup {NoSuchTool}}
    \cup {[name |-> n, args |-> a, engine |-> TooLate] :
              n \in (ToolNames \ {"health_check"}) \cup {NoSuchTool},
              a \in {"missing", "blank"}}

\* part_003:129-131
RateLimitError(rateLimit) ==
    PlainError(<<"Rate limit exceeded. Maximum ", Decimal(rateLimit), " requests per minute.">>)

\* withTimeout seen from its caller: the timeout error if the timer fires first
withTimeoutFn(opOutcome, timedOut, timeoutMs, operationName) ==
    IF timedOut
    THEN Thrown(PlainError(<<TimeoutMessage(operationName, timeoutMs)>>))
    ELSE opOutcome

\* the result of a tool that did not come to call the breaker; engine tells whether a
\* function of the engine bridge was called
BreakerUnused(b, outcome) ==
    [breaker |-> b, through |-> "unused", engine |-> FALSE, outcome |-> outcome]

\* ichiranCircuitBreaker.execute(operation) from entry to return, error-handler.ts:216-233
breakerExecuteFn(b, t, opOutcome) ==
    LET e == executeEntry(b, t) IN
    IF ~e.admit
    THEN [breaker |-> e.breaker, through |-> "no", engine |-> FALSE,
          outcome |-> Thrown(PlainError(<<BreakerOpenError>>))]
    ELSE [breaker |-> IF opOutcome.kind = "value" THEN onSuccess(e.breaker)
                      ELSE onFailure(e.breaker, t),
          through |-> "yes", engine |-> TRUE,
          outcome |-> executeOutcome(opOutcome)]

\* part_003:199-206 and 257-264: the payload made of the awaited result of an analysis
analysisPayload(result) ==
    IF result.kind = "error" THEN result
    ELSE Returned(TextContent(JsonStringify(result.payload)))

\* part_003:236-243: the payload made of the awaited romanization
romanizationPayload(result) ==
    IF result.kind = "error" THEN result ELSE Returned(TextContent(result.payload))

\* part_003:184-208
parseJapaneseTextFn(args, sub, timedOut, b, t) ==
    LET sanitized == sanitizeJapaneseTextFn(args)
    IN IF sanitized.kind = "error" THEN BreakerUnused(b, sanitized)
       ELSE breakerExecuteFn(b, t,
                analysisPayload(withTimeoutFn(analyzeFn(sub), timedOut, DefaultIchiranTimeout,
                                              "parseJapaneseText")))

\* variant: romanize_japanese is guarded by a breaker of its own, new for every request
romanizeJapaneseFn_ownBreaker(args, sub, timedOut, b, t) ==
    LET sanitized == sanitizeJapaneseTextFn(args)
    IN IF sanitized.kind = "error" THEN BreakerUnused(b, sanitized)
       ELSE [breakerExecuteFn(NewCircuitBreaker(DefaultFailureThreshold, DefaultTimeoutMs), t,
                romanizationPayload(withTimeoutFn(romanizeWithSchemeFn(sub), timedOut,
                                                  DefaultIchiranTimeout, "romanizeJapanese")))
             EXCEPT !.breaker = b]

\* part_003:210-245
romanizeJapaneseFn(args, sub, timedOut, b, t) ==
    LET sanitized == sanitizeJapaneseTextFn(args)
    IN IF sanitized.kind = "error" THEN BreakerUnused(b, sanitized)
       ELSE breakerExecuteFn(b, t,
                romanizationPayload(withTimeoutFn(romanizeWithSchemeFn(sub), timedOut,
                                                  DefaultIchiranTimeout, "romanizeJapanese")))

\* part_003:247-266: the text is sanitized inside the operation given to the breaker
analyzeKanjiFn(args, sub, timedOut, b, t) ==
    LET sanitized == sanitizeJapaneseTextFn(args)
    IN [breakerExecuteFn(b, t,
            IF sanitized.kind = "error" THEN sanitized
            ELSE analysisPayload(withTimeoutFn(analyzeFn(sub), timedOut, DefaultIchiranTimeout,
                                               "analyzeKanji")))
        EXCEPT !.engine = @ /\ sanitized.kind = "value"]

\* package.json is not part of the sources; its version is a text that is not looked into
pkgVersion == "<pkg.version>"

\* part_003:280-294: the payload made of the awaited health flag
healthPayload(result, b, env) ==
    IF result.kind = "error" THEN result
    ELSE Returned(TextContent(<<"{healthy:", IF result.payload THEN "true" ELSE "false",
                                ",circuitBreakerState:", getStateFn(b),
                                ",version:", pkgVersion,
                                ",environment:", env, "}">>))

\* part_003:268-295
healthCheckToolFn(sub, timedOut, b, env) ==
    [BreakerUnused(b, healthPayload(withTimeoutFn(healthCheckFn(sub), timedOut,
                                                  HealthCheckTimeout, "healthCheck"),
                                    b, env))
     EXCEPT !.engine = TRUE]

\* part_003:158, the text returned for analyze_kanji when a message contains 'Required'
KanjiMissingText ==
    <<"Error: Missing required parameter \"kanji\". Please provide a kanji character or characters to analyze.",
      "\n\nExample usage:\n- Single kanji: {\"kanji\": \"U+4E8B\"}\n- Multiple kanji: {\"kanji\": [\"U+4E8B\", \"U+696D\"]}">>

\* part_003:152-165, the catch block of the case analyze_kanji, r being what the try
\* block came to
kanjiCatch(r) ==
    IF /\ r.outcome.kind = "error"
       /\ r.outcome.payload.class \in ErrorClasses
       /\ Includes(r.outcome.payload.message, <<"Required">>)
    THEN [r EXCEPT !.outcome = Returned(ErrorResponse(KanjiMissingText))]
    ELSE r

\* part_003:137-175, the switch: what the tool returns or throws, and the breaker after it
dispatch(name, args, sub, timedOut, b, t, env) ==
    LET v == validateToolInputFn(args, name) IN
    IF name = "parse_japanese_text"
    THEN IF v.kind = "error" THEN BreakerUnused(b, v)
         ELSE parseJapaneseTextFn(args, sub, timedOut, b, t)
    ELSE IF name = "romanize_japanese"
    THEN IF v.kind = "error" THEN BreakerUnused(b, v)
         ELSE romanizeJapaneseFn(args, sub, timedOut, b, t)
    ELSE IF name = "analyze_kanji"
    THEN kanjiCatch(IF v.kind = "error" THEN BreakerUnused(b, v)
                    ELSE analyzeKanjiFn(args, sub, timedOut, b, t))
    ELSE IF name = "health_check"
    THEN IF v.kind = "error" THEN BreakerUnused(b, v)
         ELSE healthCheckToolFn(sub, timedOut, b, env)
    ELSE BreakerUnused(b, Thrown(PlainError(<<"Unknown tool: ", name>>)))

\* variant: only an IchiranError is turned into a response, any other error is thrown on
handlerCatch_rethrowsOthers(error, env) ==
    IF error.class = "IchiranError" THEN Returned(handleToolErrorFn(error, env))
    ELSE Thrown(error)

\* part_003:178-180, the catch block of the handler
handlerCatch(error, env) == Returned(handleToolErrorFn(error, env))

\* variant: the switch runs first and the limit is tested when the tool has returned
handlerTry_limitLast(rl, d, b, max, env) ==
       IF rl.result
       THEN [counts |-> rl.counts, breaker |-> d.breaker, limited |-> TRUE,
             through |-> d.through, engine |-> d.engine,
             error |-> RateLimitError(max),
             outcome |-> Returned(handleToolErrorFn(RateLimitError(max), env))]
       ELSE [counts |-> rl.counts, breaker |-> d.breaker, limited |-> FALSE,
             through |-> d.through, engine |-> d.engine,
             error |-> IF d.outcome.kind = "error" THEN d.outcome.payload ELSE NoError,
             outcome |-> IF d.outcome.kind = "error" THEN handlerCatch(d.outcome.payload, env)
                         ELSE d.outcome]

\* part_003:125-180, the try block and its catch: rl is what checkRateLimit() came to and
\* d what the switch would come to
handlerTry(rl, d, b, max, env) ==
       IF rl.result
       THEN [counts |-> rl.counts, breaker |-> b, limited |-> TRUE, through |-> "unused",
             engine |-> FALSE,
             error |-> RateLimitError(max),
             outcome |-> Returned(handleToolErrorFn(RateLimitError(max), env))]
       ELSE [counts |-> rl.counts, breaker |-> d.breaker, limited |-> FALSE,
             through |-> d.through, engine |-> d.engine,
             error |-> IF d.outcome.kind = "error" THEN d.outcome.payload ELSE NoError,
             outcome |-> IF d.outcome.kind = "error" THEN handlerCatch(d.outcome.payload, env)
                         ELSE d.outcome]

\* variant: the limiter is asked with the tool name as client id
callToolFn_perTool(name, args, sub, timedOut, counts, b, t, max, env) ==
    handlerTry(checkRateLimitFn(counts, name, t, max),
               dispatch(name, args, sub, timedOut, b, t, env), b, max, env)

\* part_003:122-181, the whole handler: the map of the limiter and the breaker after the
\* request, what the handler returns or throws, and what happened on the way
callToolFn(name, args, sub, timedOut, counts, b, t, max, env) ==
    handlerTry(checkRateLimitFn(counts, Undefined, t, max),
               dispatch(name, args, sub, timedOut, b, t, env), b, max, env)

NoRequest == [name |-> "none", culprits |-> {}]

\* history: the tools whose failures make up the failure count of the breaker, after a
\* request for the tool name that took the breaker from before to after
CulpritsAfter(culprits, name, before, after) ==
    IF after.failures = 0 THEN {}
    ELSE IF after.failures > before.failures THEN culprits \cup {name}
    ELSE culprits

\* no call of withTimeout has been made
NoWithTimeout == [pc |-> "none", operationName |-> "", timeoutMs |-> 0, due |-> 0,
                  timer |-> "none", operation |-> NoOutcome, result |-> NoOutcome]

(***************************************************************************)
(* History kept for the properties (not program state).                    *)
(***************************************************************************)
\* the client a call is made for: the id passed, or 'default' when none is passed
ClientOf(arg) == IF arg = Undefined THEN "default" ELSE arg

\* a call starts a new window when the client has none or its window is older than 60000 ms;
\* calls counts the calls made in the window, admits those of them that returned false
GhostWindowAfterCall(w, t, limited) ==
    LET a == IF limited THEN 0 ELSE 1 IN
    IF w.start < 0 \/ t - w.start > 60000
    THEN [start |-> t, calls |-> 1, admits |-> a]
    ELSE [start |-> w.start, calls |-> w.calls + 1, admits |-> w.admits + a]

\* the admission times that lie within 60000 ms before t (a bag: time -> number)
RecentOnly(bag, t) == [x \in {y \in DOMAIN bag : t - y <= 60000} |-> bag[x]]
BagAdd(bag, t) == [x \in (DOMAIN bag) \cup {t} |-> IF x \in DOMAIN bag /\ x = t THEN bag[x] + 1
                                                     ELSE IF x = t THEN 1 ELSE bag[x]]
\* the value of rlLast after an operation that is not a checkRateLimit call
NoCall(op) == [op |-> op, arg |-> Undefined, ret |-> FALSE, before |-> NoWindow, removed |-> {}]

\* the value of cbLast after a step that is not the event ev of an execute call
NoEvent(ev) == [ev |-> ev, as |-> "none", opOutcome |-> NoOutcome, outcome |-> NoOutcome,
                ret |-> ""]

\* run after one more call: the count is kept only while every call so far has failed
\* and no two calls overlapped
RunAfter(r, sequential, failed) ==
    IF r.pure /\ sequential
    THEN [pure |-> TRUE, n |-> IF failed THEN r.n + 1 ELSE r.n]
    ELSE [pure |-> FALSE, n |-> 0]

\* streak after one more event of a call (kind is "start", "success" or "failure"): n counts
\* the failures since the last success and prev those that preceded that success; both are
\* kept only while no two calls overlapped
NoStreak == [seq |-> FALSE, n |-> 0, prev |-> 0]
StreakAfter(s, sequential, kind) ==
    IF ~(s.seq /\ sequential) THEN NoStreak
    ELSE IF kind = "failure" THEN [s EXCEPT !.n = s.n + 1]
    ELSE IF kind = "success" THEN [s EXCEPT !.n = 0, !.prev = s.n]
    ELSE s

\* wtLast after the promise named who ("operation" or "timer") has settled: order lists
\* the promises in the order they settled, settles counts the changes of the result
RaceAfter(l, who, before, after) ==
    [order |-> Append(l.order, who),
     settles |-> IF after # before THEN l.settles + 1 ELSE l.settles]
NoRace == [order |-> <<>>, settles |-> 0]

IdleCall == [pc |-> "idle", as |-> "none"]
InFlight == {i \in Slots : calls[i].pc = "running"}

\* how a call was let through: in CLOSED, as the call that moved OPEN to HALF_OPEN,
\* or as a further call made while HALF_OPEN
AdmittedAs(b) ==
    IF b.state = "CLOSED" THEN "closed"
    ELSE IF b.state = "OPEN" THEN "probe" ELSE "halfopen"

RECURSIVE BagSize(_)
BagSize(bag) ==
    IF DOMAIN bag = {} THEN 0
    ELSE LET x == CHOOSE y \in DOMAIN bag : TRUE
         IN bag[x] + BagSize([z \in (DOMAIN bag) \ {x} |-> bag[z]])

(***************************************************************************)
(* Initial state: the module has just been loaded.                         *)
(***************************************************************************)
RLInit(limits, audits) ==
    /\ RATE_LIMIT_MAX \in limits
    /\ requestCounts = EmptyMap
    /\ rlLast = NoCall("none")
    /\ gWin = [c \in Clients |-> [start |-> 0 - 1, calls |-> 0, admits |-> 0]]
    /\ admitted = EmptyMap
    /\ audit \in audits

CBInit(thresholds) ==
    /\ \E f \in thresholds : breaker = NewCircuitBreaker(f, DefaultTimeoutMs)
    /\ calls = [i \in Slots |-> IdleCall]
    /\ cbLast = NoEvent("none")
    /\ run = [pure |-> TRUE, n |-> 0]
    /\ streak = [seq |-> TRUE, n |-> 0, prev |-> 0]

\* no call of withTimeout has been made
WTInit ==
    /\ wt = NoWithTimeout
    /\ wtLast = NoRace

\* no call of exec, none of cleanEvalOutput
ExecIdle == execCall = NoExecCall
CleanIdle == cleanCall = NoCleanCall

\* no request has been handled; the server runs in production mode (docker-compose.yml)
ToolIdle ==
    /\ NODE_ENV = "production"
    /\ toolLast = NoRequest
    /\ errorCall = NoErrorCall

\* no second run is followed
NoTwin == [requestCounts |-> EmptyMap, breaker |-> NewCircuitBreaker(0, 0),
           calls |-> [i \in Slots |-> IdleCall],
           last |-> [a |-> NoOutcome, b |-> NoOutcome]]
TwinIdle == twin = NoTwin

\* no execute call is counted
NoTally == [invoked |-> 0, recorded |-> 0, spawned |-> 0, done |-> TRUE]
TallyIdle == tally = [i \in Slots |-> NoTally]

\* the parts of the program that a specification leaves alone
RestInit ==
    /\ TwinIdle
    /\ TallyIdle
    /\ WTInit
    /\ ExecIdle
    /\ CleanIdle
    /\ ToolIdle

\* the limiter with every limit 1..MaxRateLimit, the breaker as constructed with its defaults
InitRL ==
    /\ now = Epoch
    /\ RestInit
    /\ RLInit(1..MaxRateLimit, {NoAudit})
    /\ CBInit({DefaultFailureThreshold})

\* as InitRL, with the admission times of one client recorded
InitRate ==
    /\ now = Epoch
    /\ RestInit
    /\ RLInit(1..MaxRateLimit, Clients)
    /\ CBInit({DefaultFailureThreshold})

\* the breaker with every threshold 1..MaxThreshold, the limiter with its default limit
InitCB ==
    /\ now = Epoch
    /\ RestInit
    /\ RLInit({DefaultRateLimitMax}, {NoAudit})
    /\ CBInit(1..MaxThreshold)

\* withTimeout on its own, limiter and breaker as constructed with their defaults
InitWT ==
    /\ now = Epoch
    /\ RLInit({DefaultRateLimitMax}, {NoAudit})
    /\ CBInit({DefaultFailureThreshold})
    /\ RestInit

\* exec about to be applied to one of the outcomes of the subprocess
InitExec ==
    /\ now = Epoch
    /\ RLInit({DefaultRateLimitMax}, {NoAudit})
    /\ CBInit({DefaultFailureThreshold})
    /\ WTInit
    /\ TwinIdle
    /\ TallyIdle
    /\ CleanIdle
    /\ ToolIdle
    /\ \E o \in SubprocessOutcomes :
          execCall = [outcome |-> o, done |-> FALSE, settled |-> NoOutcome]

\* cleanEvalOutput about to be applied to one of the outputs
InitClean ==
    /\ now = Epoch
    /\ RLInit({DefaultRateLimitMax}, {NoAudit})
    /\ CBInit({DefaultFailureThreshold})
    /\ WTInit
    /\ TwinIdle
    /\ TallyIdle
    /\ ExecIdle
    /\ ToolIdle
    /\ \E output \in TextsOver(OutputPieces, MaxOutputLen) :
          cleanCall = [output |-> output, done |-> FALSE, returned |-> <<>>]

(***************************************************************************)
(* Actions of the rate limiter.                                            *)
(***************************************************************************)
\* one call checkRateLimit(arg); it runs without suspension, hence one step
checkRateLimit(arg) ==
    LET c == ClientOf(arg)
        r == checkRateLimitFn(requestCounts, arg, now, RATE_LIMIT_MAX)
        g == GhostWindowAfterCall(gWin[c], now, r.result)
    IN /\ g.calls <= RATE_LIMIT_MAX + MaxExtraCalls
       /\ requestCounts' = r.counts
       /\ rlLast' = [op |-> "check", arg |-> arg, ret |-> r.result,
                     before |-> IF c \in DOMAIN requestCounts
                                THEN requestCounts[c] ELSE NoWindow,
                     removed |-> {}]
       /\ gWin' = [gWin EXCEPT ![c] = g]
       /\ admitted' = IF r.result \/ audit # c THEN admitted ELSE BagAdd(admitted, now)
       /\ UNCHANGED <<now, RATE_LIMIT_MAX, audit>>
       /\ UNCHANGED cbVars
       /\ UNCHANGED restVars

\* one run of the sweep (the setInterval callback of line 56)
cleanupRateLimits ==
    /\ requestCounts' = cleanupRateLimitsFn(requestCounts, now)
    /\ rlLast' = [NoCall("cleanup") EXCEPT
                      !.removed = (DOMAIN requestCounts) \ (DOMAIN requestCounts')]
    /\ UNCHANGED <<now, RATE_LIMIT_MAX, gWin, audit, admitted>>
    /\ UNCHANGED cbVars
    /\ UNCHANGED restVars

\* the clock advances to a later instant
Tick ==
    /\ \E t \in Instants :
         /\ t > now
         /\ now' = t
         /\ admitted' = RecentOnly(admitted, t)
    /\ rlLast' = NoCall("tick")
    /\ cbLast' = NoEvent("tick")
    /\ UNCHANGED <<RATE_LIMIT_MAX, requestCounts, gWin, audit, breaker, calls, run, streak>>
    /\ UNCHANGED restVars

RLNext ==
    \/ \E arg \in ClientArgs : checkRateLimit(arg)
    \/ cleanupRateLimits
    \/ Tick

SpecRL == InitRL /\ [][RLNext]_vars

\* the limiter with the record of one client's admission times
SpecRate == InitRate /\ [][RLNext]_vars

(***************************************************************************)
(* Actions of the circuit breaker.  execute runs up to 'await operation()' *)
(* in one step; the settling of the operation resumes it in a later step,  *)
(* and other calls can start or settle in between.                         *)
(***************************************************************************)
\* execute is called, is let through and invokes the operation, which is then pending
executeInvokes ==
    \E i \in Slots :
        LET e == executeEntry(breaker, now) IN
        /\ calls[i].pc = "idle"
        /\ \A j \in Slots : j < i => calls[j].pc = "running"
        /\ e.admit
        /\ breaker' = e.breaker
        /\ calls' = [calls EXCEPT ![i] = [pc |-> "running", as |-> AdmittedAs(breaker)]]
        /\ cbLast' = [NoEvent("invoke") EXCEPT !.as = AdmittedAs(breaker)]
        /\ run' = RunAfter(run, InFlight = {}, FALSE)
        /\ streak' = StreakAfter(streak, InFlight = {}, "start")
        /\ UNCHANGED <<now, audit, admitted>>
        /\ UNCHANGED rlVars
        /\ UNCHANGED restVars

\* execute is called while OPEN before the cooldown has elapsed: line 221 throws
executeShortCircuits ==
    LET e == executeEntry(breaker, now) IN
    /\ ~e.admit
    /\ breaker' = e.breaker
    /\ cbLast' = [NoEvent("short") EXCEPT
                     !.outcome = [kind |-> "error", payload |-> BreakerOpenError]]
    /\ UNCHANGED <<now, audit, admitted, calls, run, streak>>
    /\ UNCHANGED rlVars
    /\ UNCHANGED restVars

\* execute is called, is let through, and operation() throws before returning a promise:
\* the catch block of lines 229-232 runs in the same step
executeThrowsAtOnce ==
    \E err \in Errors :
        LET e == executeEntry(breaker, now)
            o == [kind |-> "error", payload |-> err]
        IN /\ e.admit
           /\ e.breaker.failures < e.breaker.failureThreshold + MaxOvershoot
           /\ breaker' = onFailure(e.breaker, now)
           /\ cbLast' = [ev |-> "threw", as |-> AdmittedAs(breaker), opOutcome |-> o,
                         outcome |-> executeOutcome(o), ret |-> ""]
           /\ run' = RunAfter(run, InFlight = {}, TRUE)
           /\ streak' = StreakAfter(streak, InFlight = {}, "failure")
           /\ UNCHANGED <<now, audit, admitted, calls>>
           /\ UNCHANGED rlVars
           /\ UNCHANGED restVars

\* the pending operation of call i resolves: lines 226-228
operationResolves ==
    \E i \in Slots, v \in Values :
        LET o == [kind |-> "value", payload |-> v] IN
        /\ calls[i].pc = "running"
        /\ breaker' = onSuccess(breaker)
        /\ calls' = [calls EXCEPT ![i] = IdleCall]
        /\ cbLast' = [ev |-> "success", as |-> calls[i].as, opOutcome |-> o,
                      outcome |-> executeOutcome(o), ret |-> ""]
        /\ run' = RunAfter(run, FALSE, FALSE)
        /\ streak' = StreakAfter(streak, TRUE, "success")
        /\ UNCHANGED <<now, audit, admitted>>
        /\ UNCHANGED rlVars
        /\ UNCHANGED restVars

\* the pending operation of call i rejects: lines 229-232
operationRejects ==
    \E i \in Slots, err \in Errors :
        LET o == [kind |-> "error", payload |-> err] IN
        /\ calls[i].pc = "running"
        /\ breaker.failures < breaker.failureThreshold + MaxOvershoot
        /\ breaker' = onFailure(breaker, now)
        /\ calls' = [calls EXCEPT ![i] = IdleCall]
        /\ cbLast' = [ev |-> "failure", as |-> calls[i].as, opOutcome |-> o,
                      outcome |-> executeOutcome(o), ret |-> ""]
        /\ run' = RunAfter(run, TRUE, TRUE)
        /\ streak' = StreakAfter(streak, TRUE, "failure")
        /\ UNCHANGED <<now, audit, admitted>>
        /\ UNCHANGED rlVars
        /\ UNCHANGED restVars

\* getState() is called
getState ==
    /\ cbLast' = [NoEvent("getState") EXCEPT !.ret = getStateFn(breaker)]
    /\ UNCHANGED <<now, audit, admitted, breaker, calls, run, streak>>
    /\ UNCHANGED rlVars
    /\ UNCHANGED restVars

CBNext ==
    \/ executeInvokes
    \/ executeShortCircuits
    \/ executeThrowsAtOnce
    \/ operationResolves
    \/ operationRejects
    \/ getState
    \/ Tick

SpecCB == InitCB /\ [][CBNext]_vars

\* the breaker under load: execute calls keep arriving (a call that can be let through is
\* made) and the event loop resumes every call whose operation has resolved
SpecCBLive ==
    /\ InitCB
    /\ [][CBNext]_vars
    /\ WF_vars(executeInvokes)
    /\ WF_vars(operationResolves)

(***************************************************************************)
(* Actions of withTimeout.  One call is followed at a time; the next call  *)
(* is made when the timer of the previous one has fired and its operation  *)
(* has settled.                                                            *)
(***************************************************************************)
\* withTimeout(operation, timeoutMs, operationName) is called; operation is a promise that
\* is pending or already settled.  Lines 190-200 run without suspension: the timer is
\* started and the race is set up.  A race over an already settled operation settles
\* with it before any timer callback can run.
withTimeout(operation, timeoutMs, operationName) ==
    /\ wt.pc = "none" \/ (wt.timer = "fired" /\ wt.operation # NoOutcome)
    /\ wt' = [pc |-> "called", operationName |-> operationName, timeoutMs |-> timeoutMs,
              due |-> now + timeoutMs, timer |-> "armed", operation |-> operation,
              result |-> RaceSettle(NoOutcome, operation)]
    /\ wtLast' = IF operation = NoOutcome THEN NoRace
                 ELSE RaceAfter(NoRace, "operation", NoOutcome, wt'.result)
    /\ UNCHANGED <<now, audit, admitted>>
    /\ UNCHANGED <<rlVars, cbVars, pbVars, toolVars, twinVars, tallyVars>>

\* the pending operation settles with the outcome o
operationSettles(o) ==
    /\ wt.pc = "called"
    /\ wt.operation = NoOutcome
    /\ wt' = [wt EXCEPT !.operation = o, !.result = RaceSettle(wt.result, o)]
    /\ wtLast' = RaceAfter(wtLast, "operation", wt.result, wt'.result)
    /\ UNCHANGED <<now, audit, admitted>>
    /\ UNCHANGED <<rlVars, cbVars, pbVars, toolVars, twinVars, tallyVars>>

\* the setTimeout callback of lines 191-197 runs, not before timeoutMs has passed; the
\* timer is never cleared, so it also runs when the operation has settled long before
timerFires ==
    /\ wt.timer = "armed"
    /\ now >= wt.due
    /\ wt' = [wt EXCEPT !.timer = "fired",
                        !.result = RaceSettle(wt.result,
                                              timeoutRejection(wt.operationName, wt.timeoutMs))]
    /\ wtLast' = RaceAfter(wtLast, "timer", wt.result, wt'.result)
    /\ UNCHANGED <<now, audit, admitted>>
    /\ UNCHANGED <<rlVars, cbVars, pbVars, toolVars, twinVars, tallyVars>>

WTNext ==
    \/ \E operation \in OpOutcomes \cup {NoOutcome}, timeoutMs \in TimeoutsMs,
          operationName \in OperationNames :
            withTimeout(operation, timeoutMs, operationName)
    \/ \E o \in OpOutcomes : operationSettles(o)
    \/ timerFires
    \/ Tick

SpecWT == InitWT /\ [][WTNext]_vars

(***************************************************************************)
(* The server: requests are handled one after another.                     *)
(***************************************************************************)
\* the server as started by index.ts: the breaker is new CircuitBreaker(5, 60000)
\* (part_003:27), RATE_LIMIT_MAX and NODE_ENV come from the environment
InitTool ==
    /\ now = Epoch
    /\ RLInit({MaxToolRateLimit}, {NoAudit})
    /\ CBInit({DefaultFailureThreshold})
    /\ WTInit
    /\ TwinIdle
    /\ TallyIdle
    /\ ExecIdle
    /\ CleanIdle
    /\ NODE_ENV \in {"development", "production"}
    /\ toolLast = NoRequest
    /\ errorCall = NoErrorCall

\* one request from its arrival to the response
callTool(name, args, sub, timedOut) ==
    \E r \in {callToolFn(name, args, sub, timedOut, requestCounts, breaker, now,
                         RATE_LIMIT_MAX, NODE_ENV)} :
       /\ requestCounts' = r.counts
       /\ breaker' = r.breaker
       /\ toolLast' = [name |-> name, args |-> args, sub |-> sub, timedOut |-> timedOut,
                       limited |-> r.limited, through |-> r.through, engine |-> r.engine,
                       error |-> r.error, outcome |-> r.outcome,
                       culprits |-> CulpritsAfter(toolLast.culprits, name, breaker, r.breaker)]
       /\ UNCHANGED <<now, RATE_LIMIT_MAX, rlLast, gWin, audit, admitted>>
       /\ UNCHANGED <<calls, cbLast, run, streak, NODE_ENV, errorCall>>
       /\ UNCHANGED <<wtVars, pbVars, twinVars, tallyVars>>

\* no request arrives for 60001 ms: the window of the limiter expires and the cooldown of
\* the breaker elapses
quietMinute ==
    /\ now + RATE_LIMIT_WINDOW + 1 \in Instants
    /\ now' = now + RATE_LIMIT_WINDOW + 1
    /\ admitted' = RecentOnly(admitted, now')
    /\ rlLast' = NoCall("tick")
    /\ cbLast' = NoEvent("tick")
    /\ UNCHANGED <<RATE_LIMIT_MAX, requestCounts, gWin, audit, breaker, calls, run, streak>>
    /\ UNCHANGED restVars

ToolNext ==
    \/ \E req \in Requests :
            callTool(req.name, req.args, req.engine.sub, req.engine.timedOut)
    \/ quietMinute

SpecTool == InitTool /\ [][ToolNext]_vars

(***************************************************************************)
(* The functions of the engine bridge, each applied to its input.          *)
(***************************************************************************)
\* the subprocess has ended and exec settles
exec ==
    /\ ~execCall.done
    /\ execCall' = [execCall EXCEPT !.done = TRUE, !.settled = execFn(execCall.outcome)]
    /\ UNCHANGED <<now, audit, admitted, rlVars, cbVars, wtVars, cleanCall, toolVars, twinVars, tallyVars>>

ExecNext == exec

SpecExec == InitExec /\ [][ExecNext]_vars

cleanEvalOutput ==
    /\ ~cleanCall.done
    /\ cleanCall' = [cleanCall EXCEPT !.done = TRUE,
                                      !.returned = cleanEvalOutputFn(cleanCall.output)]
    /\ UNCHANGED <<now, audit, admitted, rlVars, cbVars, wtVars, execCall, toolVars, twinVars, tallyVars>>

CleanNext == cleanEvalOutput

SpecClean == InitClean /\ [][CleanNext]_vars

(***************************************************************************)
(* handleToolError applied to an error, under each value of NODE_ENV.      *)
(***************************************************************************)
InitError ==
    /\ now = Epoch
    /\ RLInit({DefaultRateLimitMax}, {NoAudit})
    /\ CBInit({DefaultFailureThreshold})
    /\ WTInit
    /\ TwinIdle
    /\ TallyIdle
    /\ ExecIdle
    /\ CleanIdle
    /\ NODE_ENV \in Environments
    /\ toolLast = NoRequest
    /\ \E e \in HandledErrors :
          errorCall = [error |-> e, done |-> FALSE, returned |-> TextContent(<<>>)]

handleToolError ==
    /\ ~errorCall.done
    /\ errorCall' = [errorCall EXCEPT !.done = TRUE,
                                      !.returned = handleToolErrorFn(errorCall.error, NODE_ENV)]
    /\ UNCHANGED <<now, audit, admitted, rlVars, cbVars, wtVars, pbVars, NODE_ENV, toolLast,
                   twinVars, tallyVars>>

ErrorNext == handleToolError

SpecError == InitError /\ [][ErrorNext]_vars

(***************************************************************************)
(* Two independent runs of the limiter and the breaker, both fresh, that   *)
(* receive the same calls at the same clock readings with the same         *)
(* operation outcomes.  The first run is the program state, the second is  *)
(* twin.  The sweep is the timer callback of line 56 and none of the       *)
(* calls: each run has its own timer, which runs when its event loop gets  *)
(* to it.                                                                  *)
(***************************************************************************)
\* the calls of execute that the two runs receive are made one at a time, each entered
\* and settled at clock readings of its own
TwinSlots == {1}
\* the failure threshold that the breakers of the two runs are constructed with
TwinThreshold == 2
\* the arguments of the calls of checkRateLimit that the two runs receive
TwinArgs == {Undefined, "a"}

InitTwin ==
    /\ now = Epoch
    /\ RLInit({MaxRateLimit}, {NoAudit})
    /\ CBInit({TwinThreshold})
    /\ WTInit
    /\ ExecIdle
    /\ CleanIdle
    /\ ToolIdle
    /\ twin = [NoTwin EXCEPT !.breaker = breaker]
    /\ TallyIdle

\* what checkRateLimit returned, as an outcome
Verdict(limited) == [kind |-> "returned", payload |-> IF limited THEN "true" ELSE "false"]

\* lines 217-225 for one run: the breaker after the entry of execute, the call (suspended
\* at 'await operation()' if it was let through) and what is known of its outcome
enterFn(b, t) ==
    IF executeEntry(b, t).admit
    THEN [breaker |-> executeEntry(b, t).breaker,
          call |-> [pc |-> "running", as |-> AdmittedAs(b)],
          outcome |-> [kind |-> "invoked", payload |-> ""]]
    ELSE [breaker |-> executeEntry(b, t).breaker, call |-> IdleCall,
          outcome |-> [kind |-> "error", payload |-> BreakerOpenError]]

\* lines 226-232 for one run: the operation of the call settles with o, if the call was
\* let through in this run
settleFn(b, call, o, t) ==
    IF call.pc = "running"
    THEN [breaker |-> IF o.kind = "value" THEN onSuccess(b) ELSE onFailure(b, t),
          outcome |-> executeOutcome(o)]
    ELSE [breaker |-> b, outcome |-> NoOutcome]

\* both runs receive the call checkRateLimit(arg)
bothCheckRateLimit(arg) ==
    \E a \in {checkRateLimitFn(requestCounts, arg, now, RATE_LIMIT_MAX)},
       b \in {checkRateLimitFn(twin.requestCounts, arg, now, RATE_LIMIT_MAX)} :
        /\ requestCounts' = a.counts
        /\ twin' = [twin EXCEPT !.requestCounts = b.counts,
                                !.last = [a |-> Verdict(a.result), b |-> Verdict(b.result)]]
        /\ UNCHANGED <<now, RATE_LIMIT_MAX, rlLast, gWin, audit, admitted>>
        /\ UNCHANGED cbVars
        /\ UNCHANGED <<wtVars, pbVars, toolVars, tallyVars>>

\* both runs receive a call of execute
bothExecute ==
    \E i \in TwinSlots :
        /\ calls[i].pc = "idle"
        /\ twin.calls[i].pc = "idle"
        /\ \E a \in {enterFn(breaker, now)}, b \in {enterFn(twin.breaker, now)} :
              /\ breaker' = a.breaker
              /\ calls' = [calls EXCEPT ![i] = a.call]
              /\ twin' = [twin EXCEPT !.breaker = b.breaker, !.calls[i] = b.call,
                                      !.last = [a |-> a.outcome, b |-> b.outcome]]
        /\ UNCHANGED <<now, audit, admitted, cbLast, run, streak>>
        /\ UNCHANGED rlVars
        /\ UNCHANGED <<wtVars, pbVars, toolVars, tallyVars>>

\* the operation of call i settles with the outcome o in both runs
bothSettle(i, o) ==
    /\ calls[i].pc = "running" \/ twin.calls[i].pc = "running"
    /\ o.kind = "error" =>
          /\ breaker.failures < breaker.failureThreshold + MaxOvershoot
          /\ twin.breaker.failures < twin.breaker.failureThreshold + MaxOvershoot
    /\ \E a \in {settleFn(breaker, calls[i], o, now)},
          b \in {settleFn(twin.breaker, twin.calls[i], o, now)} :
          /\ breaker' = a.breaker
          /\ calls' = [calls EXCEPT ![i] = IdleCall]
          /\ twin' = [twin EXCEPT !.breaker = b.breaker, !.calls[i] = IdleCall,
                                  !.last = [a |-> a.outcome, b |-> b.outcome]]
    /\ UNCHANGED <<now, audit, admitted, cbLast, run, streak>>
    /\ UNCHANGED rlVars
    /\ UNCHANGED <<wtVars, pbVars, toolVars, tallyVars>>

\* the sweep runs in the first run
sweepInFirst ==
    /\ requestCounts' = cleanupRateLimitsFn(requestCounts, now)
    /\ UNCHANGED <<now, RATE_LIMIT_MAX, rlLast, gWin, audit, admitted>>
    /\ UNCHANGED cbVars
    /\ UNCHANGED restVars

\* the sweep runs in the second run
sweepInSecond ==
    /\ twin' = [twin EXCEPT !.requestCounts = cleanupRateLimitsFn(twin.requestCounts, now)]
    /\ UNCHANGED <<now, audit, admitted>>
    /\ UNCHANGED rlVars
    /\ UNCHANGED cbVars
    /\ UNCHANGED <<wtVars, pbVars, toolVars, tallyVars>>

TwinNext ==
    \/ \E arg \in TwinArgs : bothCheckRateLimit(arg)
    \/ bothExecute
    \/ \E i \in TwinSlots, o \in OpOutcomes : bothSettle(i, o)
    \/ sweepInFirst
    \/ sweepInSecond
    \/ Tick

SpecTwin == InitTwin /\ [][TwinNext]_vars

\* the same calls of checkRateLimit given to a limiter whose sweep runs at any point
\* (the first run) and to one whose sweep never runs (the second)
SweepNext ==
    \/ \E arg \in TwinArgs : bothCheckRateLimit(arg)
    \/ sweepInFirst
    \/ Tick

SpecSweep == InitTwin /\ [][SweepNext]_vars

(***************************************************************************)
(* The composition of part_003:190-197, 217-236 and 248-255:               *)
(* ichiranCircuitBreaker.execute(async () => { await withTimeout(engine    *)
(* call, config.timeout, label); ... }).  The engine call is a pending     *)
(* promise when withTimeout is called; execute is resumed by whichever of  *)
(* the engine call and the timer settles the race, and the promise that    *)
(* settles second is awaited by nobody.  One request is followed at a      *)
(* time.                                                                   *)
(***************************************************************************)
\* part_003:196, 221, 229, 253: the labels of the three guarded tools
GuardedNames == {"parseJapaneseText", "romanizeJapanese", "analyzeKanji"}

\* variant: execute records the outcome of every promise of the race, settled or not
guardedSettle_everyPromise(b, result, outcome, t) ==
    IF outcome.kind = "value" THEN onSuccess(b) ELSE onFailure(b, t)

\* error-handler.ts:225-232 under Promise.race (line 200): a promise of the race settles
\* with outcome while the race is at result; execute is resumed, and records the outcome,
\* only if the race was not settled before
guardedSettle(b, result, outcome, t) ==
    IF result = NoOutcome
    THEN IF outcome.kind = "value" THEN onSuccess(b) ELSE onFailure(b, t)
    ELSE b

\* the breaker with every threshold 1..MaxThreshold, no request made yet
InitGuarded ==
    /\ now = Epoch
    /\ RestInit
    /\ RLInit({DefaultRateLimitMax}, {NoAudit})
    /\ CBInit(1..MaxThreshold)

\* a guarded tool is called: execute is entered and, if the call is let through, the
\* engine call is started and handed to withTimeout
guardedExecute(operationName) ==
    \E e \in {executeEntry(breaker, now)} :
        /\ calls[1].pc = "idle"
        /\ wt.pc = "none" \/ (wt.timer = "fired" /\ wt.operation # NoOutcome)
        /\ breaker' = e.breaker
        /\ IF e.admit
           THEN /\ calls' = [calls EXCEPT ![1] = [pc |-> "running", as |-> AdmittedAs(breaker)]]
                /\ wt' = [pc |-> "called", operationName |-> operationName,
                          timeoutMs |-> DefaultIchiranTimeout,
                          due |-> now + DefaultIchiranTimeout, timer |-> "armed",
                          operation |-> NoOutcome, result |-> NoOutcome]
                /\ wtLast' = NoRace
                /\ cbLast' = [NoEvent("invoke") EXCEPT !.as = AdmittedAs(breaker)]
           ELSE /\ cbLast' = [NoEvent("short") EXCEPT
                                 !.outcome = [kind |-> "error", payload |-> BreakerOpenError]]
                /\ UNCHANGED <<calls, wt, wtLast>>
        /\ UNCHANGED <<now, audit, admitted, run, streak>>
        /\ UNCHANGED <<rlVars, pbVars, toolVars, twinVars, tallyVars>>

\* the engine call settles with o: before the timer it resumes execute, after it nothing
engineSettles(o) ==
    /\ wt.pc = "called"
    /\ wt.operation = NoOutcome
    /\ (wt.result = NoOutcome /\ o.kind = "error") =>
          breaker.failures < breaker.failureThreshold + MaxOvershoot
    /\ wt' = [wt EXCEPT !.operation = o, !.result = RaceSettle(wt.result, o)]
    /\ wtLast' = RaceAfter(wtLast, "operation", wt.result, wt'.result)
    /\ breaker' = guardedSettle(breaker, wt.result, o, now)
    /\ calls' = [calls EXCEPT ![1] = IdleCall]
    /\ cbLast' = IF wt.result # NoOutcome THEN NoEvent("abandoned")
                  ELSE [ev |-> IF o.kind = "value" THEN "success" ELSE "failure",
                        as |-> calls[1].as, opOutcome |-> o,
                        outcome |-> executeOutcome(o), ret |-> ""]
    /\ UNCHANGED <<now, audit, admitted, run, streak>>
    /\ UNCHANGED <<rlVars, pbVars, toolVars, twinVars, tallyVars>>

\* the timer of withTimeout fires: before the engine call has settled it rejects the
\* race and execute records the failure, after it nothing
engineTimerFires ==
    \E o \in {timeoutRejection(wt.operationName, wt.timeoutMs)} :
        /\ wt.timer = "armed"
        /\ now >= wt.due
        /\ wt.result = NoOutcome =>
              breaker.failures < breaker.failureThreshold + MaxOvershoot
        /\ wt' = [wt EXCEPT !.timer = "fired", !.result = RaceSettle(wt.result, o)]
        /\ wtLast' = RaceAfter(wtLast, "timer", wt.result, wt'.result)
        /\ breaker' = guardedSettle(breaker, wt.result, o, now)
        /\ calls' = [calls EXCEPT ![1] = IdleCall]
        /\ cbLast' = IF wt.result # NoOutcome THEN NoEvent("late timer")
                      ELSE [ev |-> "failure", as |-> calls[1].as, opOutcome |-> o,
                            outcome |-> executeOutcome(o), ret |-> ""]
        /\ UNCHANGED <<now, audit, admitted, run, streak>>
        /\ UNCHANGED <<rlVars, pbVars, toolVars, twinVars, tallyVars>>

GuardedNext ==
    \/ \E operationName \in GuardedNames : guardedExecute(operationName)
    \/ \E o \in OpOutcomes : engineSettles(o)
    \/ engineTimerFires
    \/ Tick

SpecGuarded == InitGuarded /\ [][GuardedNext]_vars

(***************************************************************************)
(* execute calls whose operation runs the engine: the operation calls exec *)
(* (ichiran.ts:437-455), which starts the subprocess and settles when it   *)
(* ends.  Calls overlap; each is counted from its entry to its return.     *)
(***************************************************************************)
InitRetry ==
    /\ now = Epoch
    /\ RestInit
    /\ RLInit({DefaultRateLimitMax}, {NoAudit})
    /\ CBInit(1..MaxThreshold)

\* error-handler.ts:217-225: execute is entered; a call that is let through invokes its
\* operation, which is then pending
engineExecute ==
    \E i \in Slots, e \in {executeEntry(breaker, now)} :
        /\ calls[i].pc = "idle"
        /\ \A j \in Slots : j < i => calls[j].pc = "running"
        /\ breaker' = e.breaker
        /\ IF e.admit
           THEN /\ calls' = [calls EXCEPT ![i] = [pc |-> "running", as |-> AdmittedAs(breaker)]]
                /\ tally' = [tally EXCEPT ![i] = [invoked |-> 1, recorded |-> 0,
                                                  spawned |-> 0, done |-> FALSE]]
                /\ cbLast' = [NoEvent("invoke") EXCEPT !.as = AdmittedAs(breaker)]
           ELSE /\ calls' = calls
                /\ tally' = [tally EXCEPT ![i] = NoTally]
                /\ cbLast' = [NoEvent("short") EXCEPT
                                 !.outcome = [kind |-> "error", payload |-> BreakerOpenError]]
        /\ UNCHANGED <<now, audit, admitted, run, streak>>
        /\ UNCHANGED <<rlVars, wtVars, pbVars, toolVars, twinVars>>

\* the subprocess of call i ends with the outcome sub: exec settles, the operation
\* settles as exec does, and lines 226-232 record the outcome and return
engineEnds(i, sub) ==
    \E r \in {execFn(sub)} :
        /\ calls[i].pc = "running"
        /\ r.kind = "error" => breaker.failures < breaker.failureThreshold + MaxOvershoot
        /\ breaker' = IF r.kind = "value" THEN onSuccess(breaker) ELSE onFailure(breaker, now)
        /\ calls' = [calls EXCEPT ![i] = IdleCall]
        /\ tally' = [tally EXCEPT ![i] = [invoked |-> @.invoked, recorded |-> @.recorded + 1,
                                          spawned |-> @.spawned + execSpawns(sub),
                                          done |-> TRUE]]
        /\ cbLast' = [NoEvent(IF r.kind = "value" THEN "success" ELSE "failure")
                         EXCEPT !.as = calls[i].as]
        /\ UNCHANGED <<now, audit, admitted, run, streak>>
        /\ UNCHANGED <<rlVars, wtVars, pbVars, toolVars, twinVars>>

RetryNext ==
    \/ engineExecute
    \/ \E i \in Slots, sub \in ToolOutcomes : engineEnds(i, sub)
    \/ Tick

SpecRetry == InitRetry /\ [][RetryNext]_vars

(***************************************************************************)
(* Properties of the rate limiter.                                         *)
(***************************************************************************)
\* the client of the last checkRateLimit call
LastClient == ClientOf(rlLast.arg)

\* C1: counted from the call that starts a window (the client had none, or an
\* expired one), the first RATE_LIMIT_MAX calls made within 60000 ms of the
\* window start return false and every further one returns true: the k-th call
\* of a window is rejected exactly when k > RATE_LIMIT_MAX.
C1_FirstMaxAdmitted ==
    (rlLast.op = "check" /\ RATE_LIMIT_MAX >= 1) =>
        (rlLast.ret <=> gWin[LastClient].calls > RATE_LIMIT_MAX)

C1_Witness ==
    /\ rlLast.op = "check"
    /\ rlLast.ret
    /\ RATE_LIMIT_MAX >= 2
    /\ gWin[LastClient].calls = RATE_LIMIT_MAX + 1
    /\ gWin[LastClient].admits = RATE_LIMIT_MAX

\* C2: a call made when the client's window is older than 60000 ms returns
\* false and replaces the window by {timestamp: now, count: 1}, whatever the
\* old count was.
C2_ExpiredWindowReset ==
    (/\ rlLast.op = "check"
     /\ rlLast.before # NoWindow
     /\ now - rlLast.before.timestamp > 60000) =>
        (/\ rlLast.ret = FALSE
         /\ LastClient \in DOMAIN requestCounts
         /\ requestCounts[LastClient] = [timestamp |-> now, count |-> 1])

\* the client was at its limit (its calls were being rejected) when the window expired
C2_Witness ==
    /\ rlLast.op = "check"
    /\ rlLast.before # NoWindow
    /\ now - rlLast.before.timestamp > 60000
    /\ rlLast.before.count >= RATE_LIMIT_MAX
    /\ rlLast.ret = FALSE

\* C3: a call that returns true leaves the whole map as it was: the count and
\* the timestamp of the client and the windows of all other clients.
C3_RejectionChangesNothing ==
    [][(rlLast'.op = "check" /\ rlLast'.ret) => requestCounts' = requestCounts]_vars

C3_Witness ==
    /\ rlLast.op = "check"
    /\ rlLast.ret
    /\ DOMAIN requestCounts = Clients
    /\ now - requestCounts[LastClient].timestamp = 60000

\* C4 as stated: in every interval of 60000 ms of clock time at most
\* RATE_LIMIT_MAX calls of a client are admitted.  (admitted holds the
\* admissions of the recorded client in the interval of 60000 ms that ends
\* now; every client is the recorded one in some run.)
C4_AtMostMaxPerInterval ==
    BagSize(admitted) <= RATE_LIMIT_MAX

\* C4 amended: at most RATE_LIMIT_MAX calls of a client are admitted in one
\* window, that is within 60000 ms of the call that started it, and at most
\* 2 * RATE_LIMIT_MAX - 1 in an arbitrary interval of 60000 ms.
C4_AtMostMaxPerWindow ==
    /\ \A c \in Clients : gWin[c].admits <= RATE_LIMIT_MAX
    /\ BagSize(admitted) <= 2 * RATE_LIMIT_MAX - 1

C4_Witness ==
    /\ audit \in Clients
    /\ RATE_LIMIT_MAX >= 2
    /\ gWin[audit].admits = RATE_LIMIT_MAX
    /\ BagSize(admitted) = 2 * RATE_LIMIT_MAX - 1

\* C5: cleanupRateLimits removes exactly the windows older than 60000 ms:
\* none of them remains, and every other window is kept with its timestamp and
\* count unchanged.
C5_SweepRemovesExactlyExpired ==
    [][rlLast'.op = "cleanup" =>
         /\ DOMAIN requestCounts' \subseteq DOMAIN requestCounts
         /\ \A c \in DOMAIN requestCounts' : ~(now - requestCounts'[c].timestamp > 60000)
         /\ \A c \in DOMAIN requestCounts :
               now - requestCounts[c].timestamp <= 60000 =>
                   (c \in DOMAIN requestCounts' /\ requestCounts'[c] = requestCounts[c])]_vars

\* a sweep that removed one window and kept another, of age exactly 60000 ms
C5_Witness ==
    /\ rlLast.op = "cleanup"
    /\ rlLast.removed # {}
    /\ \E c \in DOMAIN requestCounts : now - requestCounts[c].timestamp = 60000

\* the verdict of a call as a function of the caller's own window alone
OwnVerdict(w, t, max) == w # NoWindow /\ t - w.timestamp <= 60000 /\ w.count >= max

\* C6: a call for client a leaves the window of every other client alone and
\* its result is determined by a's own window; a call without a client id acts
\* on the window of 'default' exactly as a call with the id 'default' does.
C6_WindowsArePerClient ==
    [][rlLast'.op = "check" =>
         LET a == ClientOf(rlLast'.arg) IN
         /\ \A b \in Clients \ {a} :
               /\ b \in DOMAIN requestCounts' <=> b \in DOMAIN requestCounts
               /\ b \in DOMAIN requestCounts => requestCounts'[b] = requestCounts[b]
         /\ rlLast'.ret = OwnVerdict(rlLast'.before, now, RATE_LIMIT_MAX)
         /\ rlLast'.arg = Undefined =>
               LET d == checkRateLimitFn(requestCounts, "default", now, RATE_LIMIT_MAX) IN
               /\ requestCounts' = d.counts
               /\ rlLast'.ret = d.result]_vars

\* a call without id is rejected on the budget used up by calls with the id 'default',
\* while the other client has a window of its own
C6_Witness ==
    /\ rlLast.op = "check"
    /\ rlLast.arg = Undefined
    /\ rlLast.ret
    /\ "a" \in DOMAIN requestCounts
    /\ requestCounts["a"].count < RATE_LIMIT_MAX

(***************************************************************************)
(* Properties of the circuit breaker.                                      *)
(***************************************************************************)
\* the events in which execute is entered, and those in which an operation has failed
EntryEvents == {"invoke", "short", "threw"}
FailureEvents == {"failure", "threw"}

\* C7: a new breaker is CLOSED; when the calls so far were executed one after
\* another and all failed, getState() is CLOSED after each of the first F - 1
\* failures and OPEN after the F-th (F the failure threshold, F >= 1).
C7_OpensAtThreshold ==
    (/\ breaker.failureThreshold >= 1
     /\ run.pure
     /\ InFlight = {}
     /\ run.n <= breaker.failureThreshold) =>
        getStateFn(breaker) = IF run.n < breaker.failureThreshold THEN "CLOSED" ELSE "OPEN"

\* getState() answers OPEN right after the F-th failure in a row, F >= 2
C7_Witness ==
    /\ run.pure
    /\ InFlight = {}
    /\ breaker.failureThreshold >= 2
    /\ run.n = breaker.failureThreshold
    /\ cbLast.ev = "getState"
    /\ cbLast.ret = "OPEN"

\* C8: an execute call made while OPEN with now - lastFailureTime <= timeoutMs
\* fails at once with the breaker-open error, invokes no operation and leaves
\* state, failures and lastFailureTime unchanged.
C8_OpenShortCircuits ==
    [][(/\ cbLast'.ev \in EntryEvents
        /\ breaker.state = "OPEN"
        /\ now - breaker.lastFailureTime <= breaker.timeoutMs) =>
           (/\ cbLast'.ev = "short"
            /\ cbLast'.outcome = [kind |-> "error", payload |-> BreakerOpenError]
            /\ calls' = calls
            /\ breaker' = breaker)]_vars

\* a call rejected exactly timeoutMs after the last failure
C8_Witness ==
    /\ cbLast.ev = "short"
    /\ breaker.state = "OPEN"
    /\ now - breaker.lastFailureTime = breaker.timeoutMs

\* C9, first part: an execute call made while OPEN with now - lastFailureTime >
\* timeoutMs invokes its operation.
C9_ProbeIsInvoked ==
    [][(/\ cbLast'.ev \in EntryEvents
        /\ breaker.state = "OPEN"
        /\ now - breaker.lastFailureTime > breaker.timeoutMs) =>
           cbLast'.ev \in {"invoke", "threw"}]_vars

\* C9, second part: the state is HALF_OPEN while that operation runs.
C9_HalfOpenWhileProbeRuns ==
    \A i \in Slots :
        (calls[i].pc = "running" /\ calls[i].as = "probe") => breaker.state = "HALF_OPEN"

\* C9, third part: when that operation succeeds, execute returns its value and
\* the breaker is CLOSED with failure count 0.
C9_ProbeSuccessCloses ==
    [][(cbLast'.ev = "success" /\ cbLast'.as = "probe") =>
           (/\ cbLast'.outcome = cbLast'.opOutcome
            /\ cbLast'.outcome.kind = "value"
            /\ breaker'.state = "CLOSED"
            /\ breaker'.failures = 0)]_vars

\* C9: when the breaker is OPEN and execute is called with now - lastFailureTime
\* > timeoutMs, the operation is invoked, the state is HALF_OPEN while it runs,
\* and if it succeeds execute returns its value and the breaker is CLOSED with
\* failure count 0.
C9_ProbeAfterCooldown ==
    /\ C9_ProbeIsInvoked
    /\ []C9_HalfOpenWhileProbeRuns
    /\ C9_ProbeSuccessCloses

\* C10: when a call let through in HALF_OPEN (the one that moved OPEN to
\* HALF_OPEN, or one made while HALF_OPEN) fails, the breaker is OPEN afterwards,
\* lastFailureTime is the time of that failure, and no call is let through until
\* more than timeoutMs has passed since then.
C10_FailedProbeReopens ==
    [][(cbLast'.ev \in FailureEvents /\ cbLast'.as \in {"probe", "halfopen"}) =>
           (/\ breaker'.state = "OPEN"
            /\ breaker'.lastFailureTime = now
            /\ \A t \in Instants :
                  (t >= now /\ t - now <= breaker'.timeoutMs) =>
                      ~executeEntry(breaker', t).admit)]_vars

\* C11, per call: a call that succeeds while the breaker is CLOSED leaves it
\* CLOSED with failure count 0.
C11_SuccessInClosedResets ==
    [][(cbLast'.ev = "success" /\ breaker.state = "CLOSED") =>
           (breaker'.failures = 0 /\ breaker'.state = "CLOSED")]_vars

\* C11, over a run: while calls are executed one after another, the breaker is
\* not OPEN unless the failures since the last success number at least F, and a
\* step that opens it is the F-th failure since the last success.
C11_OpenNeedsUnbrokenFailures ==
    /\ [](streak.seq /\ streak.n < breaker.failureThreshold => breaker.state # "OPEN")
    /\ [][(streak'.seq /\ breaker.state = "CLOSED" /\ breaker'.state = "OPEN") =>
              streak'.n = breaker.failureThreshold]_vars

\* C11: a successful call in CLOSED resets the failure count to 0 and leaves the
\* state CLOSED, so with calls executed one after another the breaker opens only
\* after F failures with no success in between; failures separated by a success
\* never accumulate to open it.
C11_SuccessResetsCount ==
    /\ C11_SuccessInClosedResets
    /\ C11_OpenNeedsUnbrokenFailures

\* F or more failures in all, separated by a success, and the breaker is still CLOSED
C11_Witness ==
    /\ streak.seq
    /\ cbLast.ev = "failure"
    /\ streak.prev >= 1
    /\ streak.n >= 1
    /\ streak.prev + streak.n >= breaker.failureThreshold
    /\ breaker.state = "CLOSED"

\* C12: for every execute call that is let through, what execute settles with
\* is what the operation settled with: the same value, or the very same error;
\* the breaker-open error is the outcome of short-circuited calls only.
C12_OutcomePassedThrough ==
    [][/\ cbLast'.ev \in {"success", "failure", "threw"} =>
             /\ cbLast'.outcome = cbLast'.opOutcome
             /\ cbLast'.outcome.payload # BreakerOpenError
       /\ cbLast'.outcome = [kind |-> "error", payload |-> BreakerOpenError] =>
             cbLast'.ev = "short"]_vars

\* an operation let through as the probe fails with an error of its own, and
\* execute fails with that error
C12_Witness ==
    /\ cbLast.ev = "failure"
    /\ cbLast.as = "probe"
    /\ cbLast.opOutcome = [kind |-> "error", payload |-> "e2"]
    /\ cbLast.outcome = [kind |-> "error", payload |-> "e2"]

(***************************************************************************)
(* Properties of withTimeout.                                              *)
(***************************************************************************)
\* C13: if the operation settles before the timer fires, withTimeout settles
\* with the operation's outcome: its value unchanged, or its own error
\* unchanged - also after the timer has fired later on.
C13_OperationFirstPassesThrough ==
    (wtLast.order # <<>> /\ Head(wtLast.order) = "operation") =>
        (wt.operation \in OpOutcomes /\ wt.result = wt.operation)

\* the operation rejected first, the timer fired afterwards, the result is the operation's error
C13_Witness ==
    /\ wtLast.order = <<"operation", "timer">>
    /\ wt.operation = [kind |-> "error", payload |-> "e1"]
    /\ wt.result = [kind |-> "error", payload |-> "e1"]

\* the decimal notation of the timeouts in use
TimeoutText == (5000 :> "5000") @@ (30000 :> "30000")

\* the error of a timeout as the claim words it
ExpectedTimeout(w) ==
    [kind |-> "error",
     payload |-> "Operation '" \o w.operationName \o "' timed out after "
                     \o TimeoutText[w.timeoutMs] \o "ms"]

\* C14: if the timer fires before the operation settles, withTimeout rejects
\* with an error whose message is "Operation '<label>' timed out after
\* <timeoutMs>ms", so it contains the label and the timeout value.
C14_TimerFirstRejects ==
    (wtLast.order # <<>> /\ Head(wtLast.order) = "timer") =>
        wt.result = ExpectedTimeout(wt)

C14_Witness ==
    /\ wtLast.order = <<"timer">>
    /\ wt.operation = NoOutcome
    /\ wt.operationName = "parseJapaneseText"
    /\ wt.timeoutMs = 30000
    /\ wt.result = [kind |-> "error",
                    payload |-> "Operation 'parseJapaneseText' timed out after 30000ms"]

\* C15, the operation: the step in which the timer fires leaves the operation
\* as it is (pending, so that it can still settle).
C15_TimerLeavesOperation ==
    [][(wt.timer = "armed" /\ wt'.timer = "fired") => wt'.operation = wt.operation]_vars

\* C15, the result: when the operation settles after the timeout, the outcome
\* of withTimeout is still the timeout error; the result is written at most once.
C15_ResultSettlesOnce ==
    /\ wtLast.settles <= 1
    /\ wtLast.order = <<"timer", "operation">> =>
          (/\ wt.operation \in OpOutcomes
           /\ wt.result.kind = "error"
           /\ wt.result.payload \notin Errors
           /\ wt.result # wt.operation)

\* C15: a timeout does not cancel the operation: after withTimeout has rejected
\* with the timeout error the operation runs on to its own completion, and its
\* later success or failure never changes the outcome of withTimeout, which
\* settles exactly once.
C15_TimeoutDoesNotCancel ==
    /\ C15_TimerLeavesOperation
    /\ []C15_ResultSettlesOnce

\* after the timeout the operation has completed with a value of its own
C15_Witness ==
    /\ wtLast.order = <<"timer", "operation">>
    /\ wt.operation = [kind |-> "value", payload |-> "v2"]
    /\ wt.result.kind = "error"
    /\ wtLast.settles = 1

(***************************************************************************)
(* Properties of the engine bridge.                                        *)
(***************************************************************************)
\* a string mentions a piece when the piece is one of its elements
Mentions(text, piece) == \E i \in 1..Len(text) : text[i] = piece

\* a string without its leading and trailing white space: from its first to its last
\* character that is neither a space nor a newline
Trimmed(s) ==
    LET solid == {i \in 1..Len(s) : s[i] # " " /\ s[i] # "\n"} IN
    IF solid = {} THEN <<>>
    ELSE SubSeq(s, CHOOSE i \in solid : \A j \in solid : i <= j,
                   CHOOSE i \in solid : \A j \in solid : i >= j)

\* exec has failed with an IchiranError of the given code
FailedWith(r, code) ==
    /\ r.kind = "error"
    /\ r.payload.class = "IchiranError"
    /\ r.payload.code = code

\* C16: exec classifies every outcome of the subprocess by these rules, in
\* this order: a non-zero exit whose stderr contains 'No such container' fails
\* with CONTAINER_NOT_FOUND; any other non-zero exit fails with COMMAND_FAILED
\* and the exit code in details; a thrown Error whose message contains
\* 'timeout' fails with TIMEOUT; anything else thrown fails with
\* EXECUTION_ERROR and the original error in details; exit code 0 returns
\* stdout trimmed.
C16_ExecClassifies ==
    execCall.done /\ execCall.outcome.kind # "none" =>
        LET o == execCall.outcome
            r == execCall.settled
        IN IF o.kind = "exit" /\ o.exitCode # 0 /\ Mentions(o.stderr, "No such container")
           THEN FailedWith(r, "CONTAINER_NOT_FOUND")
           ELSE IF o.kind = "exit" /\ o.exitCode # 0
           THEN FailedWith(r, "COMMAND_FAILED") /\ r.payload.details = [exitCode |-> o.exitCode]
           ELSE IF o.kind = "throw" /\ o.error.class = "Error"
                   /\ Mentions(o.error.message, "timeout")
           THEN FailedWith(r, "TIMEOUT")
           ELSE IF o.kind = "throw"
           THEN FailedWith(r, "EXECUTION_ERROR") /\ r.payload.details = [originalError |-> o.error]
           ELSE r = [kind |-> "value", payload |-> Trimmed(o.stdout)]

\* a failed command whose stderr speaks of a timeout is COMMAND_FAILED, not TIMEOUT
C16_Witness ==
    /\ execCall.done
    /\ execCall.outcome.kind = "exit"
    /\ execCall.outcome.exitCode = 1
    /\ execCall.outcome.stderr = <<"x", "timeout">>
    /\ FailedWith(execCall.settled, "COMMAND_FAILED")
    /\ execCall.settled.payload.details = [exitCode |-> 1]

\* C17: for every string s without a double quote, cleanEvalOutput applied to
\* s wrapped in one pair of double quotes and followed by optional white space
\* returns s trimmed.
C17_QuotedStringUnwrapped ==
    cleanCall.done =>
        \A k \in 2..Len(cleanCall.output) :
            (/\ cleanCall.output[1] = Quote
             /\ cleanCall.output[k] = Quote
             /\ \A i \in 2..(k - 1) : cleanCall.output[i] # Quote
             /\ \A i \in (k + 1)..Len(cleanCall.output) : cleanCall.output[i] \in {" ", "\n"})
                => cleanCall.returned = Trimmed(SubSeq(cleanCall.output, 2, k - 1))

(***************************************************************************)
(* Properties of the call-tool handler.                                    *)
(***************************************************************************)
\* the last request came to run the engine function of an analysis, which settled before
\* the timer: it was not rate limited, its arguments were valid, the breaker let it through
AnalysisRan ==
    /\ toolLast.name \in {"parse_japanese_text", "analyze_kanji"}
    /\ toolLast.args = "valid"
    /\ ~toolLast.limited
    /\ toolLast.through = "yes"
    /\ ~toolLast.timedOut

\* the subprocess exited with status 0 and its output is not one of the well-formed ones
MalformedOutput(sub) ==
    /\ sub.kind = "exit"
    /\ sub.exitCode = 0
    /\ sub.stdout \notin {<<"[", "]", "\n">>}

EngineCodes == {"CONTAINER_NOT_FOUND", "COMMAND_FAILED", "TIMEOUT", "EXECUTION_ERROR"}

\* the handler returned an error response: isError is true and there is one text item
IsErrorResponse(o) ==
    /\ o.kind = "value"
    /\ "isError" \in DOMAIN o.payload
    /\ o.payload.isError = TRUE
    /\ Len(o.payload.content) = 1
    /\ o.payload.content[1].type = "text"

\* the handler returned a success payload: one text item and no isError
IsSuccessPayload(o) ==
    /\ o.kind = "value"
    /\ DOMAIN o.payload = {"content"}
    /\ Len(o.payload.content) = 1
    /\ o.payload.content[1].type = "text"

\* C18: when the engine exits with status 0 but its output is not well-formed
\* structured data, analyze and analyzeWithLimit fail with a decode error that
\* is not an error with one of the four engine codes, and the handler returns
\* an error response for it.
C18_DecodeErrorIsDistinct ==
    (toolLast.name # "none" /\ AnalysisRan /\ MalformedOutput(toolLast.sub)) =>
        (/\ toolLast.error.class = "SyntaxError"
         /\ ~("code" \in DOMAIN toolLast.error /\ toolLast.error.code \in EngineCodes)
         /\ IsErrorResponse(toolLast.outcome)
         /\ ~Mentions(toolLast.outcome.payload.content[1].text, "Ichiran Error ["))

C18_Witness ==
    /\ toolLast.name = "parse_japanese_text"
    /\ AnalysisRan
    /\ toolLast.sub.kind = "exit"
    /\ toolLast.sub.exitCode = 0
    /\ toolLast.sub.stdout = <<"x">>
    /\ toolLast.error.class = "SyntaxError"
    /\ IsErrorResponse(toolLast.outcome)

\* C19: the handler never throws: for every tool name and payload and every
\* outcome of rate limiting, validation, the breaker, the timeout and the
\* engine it returns a success payload or an error response with isError =
\* true and exactly one text item.
C19_HandlerNeverThrows ==
    toolLast.name # "none" =>
        (/\ toolLast.outcome.kind = "value"
         /\ IsSuccessPayload(toolLast.outcome) \/ IsErrorResponse(toolLast.outcome)
         /\ toolLast.error # NoError => IsErrorResponse(toolLast.outcome))

\* the breaker is open, and the request refused by it is answered with an error response
C19_Witness ==
    /\ toolLast.name = "romanize_japanese"
    /\ toolLast.through = "no"
    /\ breaker.state = "OPEN"
    /\ IsErrorResponse(toolLast.outcome)

\* the kind of the taxonomy that the error of the last request belongs to
TaxonomyKind ==
    IF toolLast.limited THEN "RateLimited"
    ELSE IF toolLast.through = "no" THEN "BreakerOpen"
    ELSE IF toolLast.error.class = "IchiranError" /\ toolLast.error.code = "CONTAINER_NOT_FOUND"
    THEN "ContainerNotFound"
    ELSE IF toolLast.error.class = "IchiranError" /\ toolLast.error.code = "COMMAND_FAILED"
    THEN "CommandFailed"
    ELSE IF toolLast.error.class = "IchiranError" /\ toolLast.error.code = "EXECUTION_ERROR"
    THEN "ExecutionError"
    ELSE IF toolLast.error.class = "IchiranError" /\ toolLast.error.code = "TIMEOUT"
    THEN "TimedOut"
    ELSE IF toolLast.error.class = "Error" /\ toolLast.timedOut /\ toolLast.args = "valid"
            /\ toolLast.name \in ToolNames
    THEN "TimedOut"
    ELSE "none"

\* a code for each kind; the program has none for RateLimited and BreakerOpen, for which
\* any code would do
CodeOfKind ==
    [ContainerNotFound |-> {"CONTAINER_NOT_FOUND"}, CommandFailed |-> {"COMMAND_FAILED"},
     TimedOut |-> {"TIMEOUT"}, ExecutionError |-> {"EXECUTION_ERROR"},
     RateLimited |-> {"RATE_LIMITED", "RATE_LIMIT_EXCEEDED"},
     BreakerOpen |-> {"BREAKER_OPEN", "CIRCUIT_OPEN"}]

\* C20: every error of the taxonomy reaches the caller as a response whose
\* text carries a code identifying its kind together with the error's message,
\* in every configuration.
C20_ErrorsCarryCodeAndMessage ==
    (toolLast.name # "none" /\ TaxonomyKind # "none") =>
        LET text == toolLast.outcome.payload.content[1].text IN
        /\ IsErrorResponse(toolLast.outcome)
        /\ \E i \in 1..Len(text) : text[i] \in CodeOfKind[TaxonomyKind]
        /\ Includes(text, toolLast.error.message)

\* an Error that is no IchiranError
IsPlainError(e) == e.class \in {"Error", "SyntaxError"}

\* C21: for a plain Error the response of handleToolError is one fixed text,
\* whatever the message and the stack, unless NODE_ENV is 'development'; in
\* development the text contains the message and the stack.
C21_DetailsOnlyInDevelopment ==
    (errorCall.done /\ IsPlainError(errorCall.error)) =>
        LET text == errorCall.returned.content[1].text
            e == errorCall.error
        IN IF NODE_ENV = "development"
           THEN /\ Includes(text, e.message)
                /\ e.stack # Undefined => Mentions(text, e.stack)
           ELSE text = <<"An internal error occurred. Please try again.">>

\* outside development and production, an error with a telling message and a stack
C21_Witness ==
    /\ errorCall.done
    /\ NODE_ENV = "test"
    /\ errorCall.error.class = "Error"
    /\ Mentions(errorCall.error.message, "secret")
    /\ errorCall.error.stack = "at f (a.js:1:1)"
    /\ errorCall.returned.content[1].text = <<"An internal error occurred. Please try again.">>

\* the windows of a map that are not older than 60000 ms
LiveWindows(m) == [c \in {x \in DOMAIN m : now - m[x].timestamp <= 60000} |-> m[c]]

\* both runs returned the same to the last call, and their breakers agree
SameResultsAndBreaker ==
    /\ twin.last.a = twin.last.b
    /\ breaker.state = twin.breaker.state
    /\ breaker.failures = twin.breaker.failures
    /\ breaker.lastFailureTime = twin.breaker.lastFailureTime

C23_RejectedStopsAtLimiter ==
    (toolLast.name # "none" /\ toolLast.limited) =>
        (/\ IsErrorResponse(toolLast.outcome)
         /\ toolLast.error.class = "Error"
         /\ Mentions(toolLast.error.message, "Rate limit exceeded. Maximum ")
         /\ toolLast.through = "unused"
         /\ ~toolLast.engine)

\* C23, the breaker: a step that leaves a rejected request behind has changed
\* no field of the breaker.
C23_RejectedLeavesBreaker ==
    [][(toolLast'.name # "none" /\ toolLast'.limited) => breaker' = breaker]_vars

\* C23, the converse: a request that came to the breaker or to the engine had
\* been admitted.
C23_ReachedOnlyIfAdmitted ==
    (toolLast.name # "none" /\ (toolLast.through # "unused" \/ toolLast.engine)) =>
        ~toolLast.limited

\* C23: admission comes first: a request that checkRateLimit rejects gets an
\* error response without validation, without a call of CircuitBreaker.execute
\* and without the engine, and leaves the breaker unchanged; only admitted
\* requests reach the breaker and the engine.
C23_AdmissionComesFirst ==
    /\ []C23_RejectedStopsAtLimiter
    /\ C23_RejectedLeavesBreaker
    /\ []C23_ReachedOnlyIfAdmitted

\* a rejected request whose payload lacks the required text, made while the breaker is
\* OPEN and its cooldown has elapsed
C23_Witness ==
    /\ toolLast.name = "parse_japanese_text"
    /\ toolLast.args = "missing"
    /\ toolLast.limited
    /\ toolLast.through = "unused"
    /\ breaker.state = "OPEN"
    /\ now - breaker.lastFailureTime > breaker.timeoutMs

\* C24: with threshold F >= 1, in every reachable state of the breaker, under
\* any interleaving of operations in flight, the state is CLOSED exactly when
\* the failure count is below F: never CLOSED with F or more failures, never
\* OPEN or HALF_OPEN with fewer.
C24_ClosedIffBelowThreshold ==
    breaker.failureThreshold >= 1 =>
        (breaker.state = "CLOSED" <=> breaker.failures < breaker.failureThreshold)

\* operations let through while CLOSED have failed one after the other and the count has
\* overshot the threshold, while another one is still in flight
C24_Witness ==
    /\ cbLast.ev = "failure"
    /\ cbLast.as = "closed"
    /\ breaker.state = "OPEN"
    /\ breaker.failureThreshold >= 2
    /\ breaker.failures > breaker.failureThreshold
    /\ InFlight # {}

\* C25: the only step out of OPEN is the one to HALF_OPEN, taken by an execute
\* call made after the cooldown has elapsed; while now - lastFailureTime <=
\* timeoutMs the breaker stays OPEN, and no step taken while OPEN (in particular
\* the completion of an operation that was in flight when the breaker opened)
\* makes it CLOSED or lowers the failure count.
C25_OpenLeftOnlyByProbe ==
    [][breaker.state = "OPEN" =>
          /\ breaker'.state \in {"OPEN", "HALF_OPEN"}
          /\ breaker'.state = "HALF_OPEN" =>
                (cbLast'.ev = "invoke" /\ now - breaker.lastFailureTime > breaker.timeoutMs)
          /\ now - breaker.lastFailureTime <= breaker.timeoutMs => breaker'.state = "OPEN"
          /\ breaker'.failures >= breaker.failures]_vars

\* the calls let through in HALF_OPEN whose operation is in flight
ProbesInFlight == {i \in Slots : calls[i].pc = "running" /\ calls[i].as \in {"probe", "halfopen"}}

\* C26, the calls: an execute call made while the state is HALF_OPEN and the
\* probe has not completed is short-circuited and its operation is not invoked.
C26_FurtherCallsShortCircuited ==
    [][(/\ cbLast'.ev \in EntryEvents
        /\ breaker.state = "HALF_OPEN"
        /\ ProbesInFlight # {}) =>
           (cbLast'.ev = "short" /\ calls' = calls)]_vars

\* C26, the state: at most one operation let through in HALF_OPEN is in flight.
C26_AtMostOneProbe == Cardinality(ProbesInFlight) <= 1

\* C26: after the step from OPEN to HALF_OPEN exactly one call, the probe, is
\* let through: while the probe has not completed every further execute call is
\* short-circuited, so at most one operation admitted in HALF_OPEN is in flight.
C26_SingleProbe ==
    /\ C26_FurtherCallsShortCircuited
    /\ []C26_AtMostOneProbe

\* C27: under any interleaving of the calls of the clients and the sweep, no
\* update is lost: for RATE_LIMIT_MAX >= 1 every stored window has
\* 1 <= count <= RATE_LIMIT_MAX, starts where the client's current window
\* started, and its count is the number of calls of that client admitted since.
C27_CountIsAdmissionsOfWindow ==
    RATE_LIMIT_MAX >= 1 =>
        \A c \in DOMAIN requestCounts :
            /\ 1 <= requestCounts[c].count
            /\ requestCounts[c].count <= RATE_LIMIT_MAX
            /\ requestCounts[c].timestamp = gWin[c].start
            /\ requestCounts[c].count = gWin[c].admits

\* the calls of two clients interleaved: one window is full, the other is not,
\* and the last call was rejected
C27_Witness ==
    /\ RATE_LIMIT_MAX >= 2
    /\ DOMAIN requestCounts = Clients
    /\ rlLast.op = "check"
    /\ rlLast.ret
    /\ requestCounts[LastClient].count = RATE_LIMIT_MAX
    /\ \E c \in Clients \ {LastClient} :
          /\ requestCounts[c].count < RATE_LIMIT_MAX
          /\ requestCounts[c].timestamp # requestCounts[LastClient].timestamp

\* C28: a window's count is incremented only by a call made while
\* now - windowStart <= 60000; a later call does not increment the old count
\* but replaces the window, so every call counted in a window was made within
\* 60000 ms of that window's start.
C28_CountedWithinWindow ==
    [][rlLast'.op = "check" =>
         LET c == ClientOf(rlLast'.arg)
             w == rlLast'.before
         IN /\ (w # NoWindow /\ now - w.timestamp > 60000) =>
                  (/\ c \in DOMAIN requestCounts'
                   /\ requestCounts'[c].timestamp = now
                   /\ requestCounts'[c].count = 1)
            /\ (/\ w # NoWindow
                /\ c \in DOMAIN requestCounts'
                /\ requestCounts'[c].timestamp = w.timestamp
                /\ requestCounts'[c].count # w.count) =>
                  (/\ now - w.timestamp <= 60000
                   /\ requestCounts'[c].count = w.count + 1)
            /\ ~rlLast'.ret =>
                  (/\ c \in DOMAIN requestCounts'
                   /\ now - requestCounts'[c].timestamp >= 0
                   /\ now - requestCounts'[c].timestamp <= 60000)]_vars

\* a call made exactly 60000 ms after the window's start was counted in it
C28_Witness ==
    /\ rlLast.op = "check"
    /\ ~rlLast.ret
    /\ rlLast.before # NoWindow
    /\ now - rlLast.before.timestamp = 60000
    /\ requestCounts[LastClient].timestamp = rlLast.before.timestamp
    /\ requestCounts[LastClient].count = rlLast.before.count + 1

\* the steps of an execute call: its entry and the settling of its operation
ExecuteEvents == EntryEvents \cup {"success", "failure"}

\* C29: the breaker changes only in the steps of execute calls, never by the
\* passage of time: when the clock advances no field of the breaker changes,
\* and getState() returns the stored state (OPEN also after the cooldown has
\* elapsed) and changes no field.
C29_ChangesOnlyInsideExecute ==
    [][/\ breaker' # breaker => cbLast'.ev \in ExecuteEvents
       /\ now' # now => breaker' = breaker
       /\ cbLast'.ev = "getState" =>
             (breaker' = breaker /\ calls' = calls /\ cbLast'.ret = breaker.state)]_vars

\* the cooldown has elapsed with no call made since, and getState() answered OPEN
C29_Witness ==
    /\ cbLast.ev = "getState"
    /\ cbLast.ret = "OPEN"
    /\ breaker.state = "OPEN"
    /\ now - breaker.lastFailureTime > breaker.timeoutMs
    /\ breaker.failures >= breaker.failureThreshold

\* C30: when the operation settles before the timeout, the timer of the call is
\* discarded: once withTimeout has settled with the operation's outcome, no
\* timer created by that call is pending and none has fired after it.
C30_TimerDiscarded ==
    (wtLast.order # <<>> /\ Head(wtLast.order) = "operation") =>
        wt.timer \notin {"armed", "fired"}

\* the step in which the timer of withTimeout fires while the engine call is pending
TimeoutStep == wt.timer = "armed" /\ wt'.timer = "fired" /\ wt.operation = NoOutcome
\* the step in which the engine call completes after its timeout
AbandonedCompletes ==
    /\ wt.timer = "fired" /\ wt'.timer = "fired"
    /\ wt.operation = NoOutcome /\ wt'.operation # NoOutcome

\* C31: in execute(() => withTimeout(engine call, timeout)) a timeout is
\* recorded as exactly one failure (failure count + 1, lastFailureTime = the
\* time of the timeout), and the later completion of the abandoned engine
\* call, a success or a failure, changes neither the state nor the count.
C31_TimeoutIsOneFailure ==
    [][/\ TimeoutStep =>
             (/\ breaker'.failures = breaker.failures + 1
              /\ breaker'.lastFailureTime = now)
       /\ AbandonedCompletes =>
             (/\ breaker'.state = breaker.state
              /\ breaker'.failures = breaker.failures
              /\ breaker'.lastFailureTime = breaker.lastFailureTime)]_vars

\* a timeout opened the breaker, and the abandoned engine call has succeeded since
C31_Witness ==
    /\ wtLast.order = <<"timer", "operation">>
    /\ wt.operation.kind = "value"
    /\ wt.result.kind = "error"
    /\ breaker.state = "OPEN"
    /\ breaker.failures = breaker.failureThreshold
    /\ breaker.lastFailureTime >= wt.due

\* C32, the counts: a call that is let through has invoked its operation once;
\* when it has returned it has recorded one outcome and started one
\* subprocess; a short-circuited call has invoked, recorded and started nothing.
C32_CountsAtMostOne ==
    \A i \in Slots :
        /\ tally[i].invoked <= 1
        /\ tally[i].recorded <= tally[i].invoked
        /\ tally[i].spawned <= tally[i].invoked
        /\ calls[i].pc = "running" <=> ~tally[i].done
        /\ ~tally[i].done => (tally[i].invoked = 1 /\ tally[i].recorded = 0)
        /\ tally[i].done => (/\ tally[i].recorded = tally[i].invoked
                             /\ tally[i].spawned = tally[i].invoked)

\* C32, the breaker: the return of a call is one onSuccess or one onFailure, the
\* entry of a call records nothing.
C32_OneOutcomeRecorded ==
    [][/\ cbLast'.ev = "failure" => breaker'.failures = breaker.failures + 1
       /\ cbLast'.ev = "success" => (breaker'.failures = 0 /\ breaker'.state = "CLOSED")
       /\ cbLast'.ev \in {"invoke", "short"} =>
             (/\ breaker'.failures = breaker.failures
              /\ breaker'.lastFailureTime = breaker.lastFailureTime)]_vars

ClosingQuoteAt(s, k) ==
    /\ s[k] = Quote
    /\ \/ (k + 1 <= Len(s) /\ s[k + 1] = "\n")
       \/ (k + 2 <= Len(s) /\ s[k + 1] = " " /\ s[k + 2] = "\n")

\* C33: for output that starts with a double quote and contains a closing
\* double quote followed by a newline (with or without a space in between),
\* cleanEvalOutput returns the text between the opening quote and that closing
\* quote and drops everything after it.
C33_DropsAfterQuoteNewline ==
    cleanCall.done =>
        \A k \in 2..Len(cleanCall.output) :
            (/\ cleanCall.output[1] = Quote
             /\ ClosingQuoteAt(cleanCall.output, k)
             /\ \A j \in 2..(k - 1) : ~ClosingQuoteAt(cleanCall.output, j))
                => cleanCall.returned \in {SubSeq(cleanCall.output, 2, k - 1),
                                           Trimmed(SubSeq(cleanCall.output, 2, k - 1))}

\* the texts left when the leading quote of c, one later quote and all that follows that
\* quote are removed
OneLayerRemoved(c) ==
    IF c = <<>> \/ Head(c) # Quote THEN {}
    ELSE UNION {{SubSeq(c, 2, k - 1), Trimmed(SubSeq(c, 2, k - 1))} :
                    k \in {j \in 2..Len(c) : c[j] = Quote}}

\* C34: cleanEvalOutput strips at most one layer of surrounding double quotes
\* per call: the result is the trimmed input, or the trimmed input with one
\* leading and one closing quote removed and the text after that closing quote
\* dropped; two nested layers are never removed in one call.
C34_AtMostOneLayer ==
    cleanCall.done =>
        \/ cleanCall.returned = Trimmed(cleanCall.output)
        \/ cleanCall.returned \in OneLayerRemoved(Trimmed(cleanCall.output))

\* C35: the sweep is invisible to callers: a limiter in which cleanupRateLimits
\* runs at any points and one in which it never runs return the same to every
\* checkRateLimit call, and hold the same window for every client whose window
\* is not expired; the windows that the sweep has removed were expired.
C35_SweepInvisible ==
    /\ twin.last.a = twin.last.b
    /\ DOMAIN requestCounts \subseteq DOMAIN twin.requestCounts
    /\ \A c \in DOMAIN requestCounts : requestCounts[c] = twin.requestCounts[c]
    /\ \A c \in (DOMAIN twin.requestCounts) \ (DOMAIN requestCounts) :
          now - twin.requestCounts[c].timestamp > 60000

\* the sweep has removed a window that the limiter without sweep still holds, and both
\* have just rejected a call
C35_Witness ==
    /\ (DOMAIN twin.requestCounts) \ (DOMAIN requestCounts) # {}
    /\ twin.last.a = [kind |-> "returned", payload |-> "true"]
    /\ twin.last.b = [kind |-> "returned", payload |-> "true"]

\* the three tools whose engine call is guarded by the breaker
GuardedTools == {"parse_japanese_text", "romanize_japanese", "analyze_kanji"}

\* C36: only engine-side failures count against the breaker: a request for one
\* of the three guarded tools that is rejected because of its own input (a
\* missing text, or a text that is empty after sanitization) leaves the
\* breaker's state and failure count unchanged.
C36_BadInputLeavesBreaker ==
    [][(/\ toolLast'.name \in GuardedTools
        /\ toolLast'.args \in {"missing", "blank"}) =>
           (/\ breaker'.state = breaker.state
            /\ breaker'.failures = breaker.failures)]_vars

\* the last request was for health_check and was admitted
HealthChecked == toolLast.name = "health_check" /\ ~toolLast.limited
\* the subprocess of the last request ended with exit status 0
ExecSucceeded == toolLast.sub.kind = "exit" /\ toolLast.sub.exitCode = 0

\* C37, the result: when its timer does not fire first, health_check answers
\* with a success payload whose flag healthy is true exactly when exec
\* succeeded, and false, never an error, on every failure of exec.
C37_HealthyIffExecSucceeds ==
    (HealthChecked /\ ~toolLast.timedOut) =>
        (/\ IsSuccessPayload(toolLast.outcome)
         /\ toolLast.outcome.payload.content[1].text[2] =
                IF ExecSucceeded THEN "true" ELSE "false")

\* C37, the breaker: an admitted health_check does not call execute, invokes
\* the engine whatever the state of the breaker, and changes no field of it.
C37_BreakerUntouched ==
    [][(toolLast'.name = "health_check" /\ ~toolLast'.limited) =>
           (/\ toolLast'.through = "unused"
            /\ toolLast'.engine
            /\ breaker' = breaker)]_vars

\* C37: health_check bypasses the breaker: it never calls execute, so it
\* invokes the engine even while the breaker is OPEN, its success or failure
\* never changes the breaker's state, failure count or lastFailureTime, and
\* ichiran.healthCheck returns true exactly when exec succeeds and false,
\* never an exception, on every exec failure.
C37_HealthCheckBypassesBreaker ==
    /\ C37_BreakerUntouched
    /\ []C37_HealthyIffExecSucceeds

\* the engine was reached while the breaker was OPEN within its cooldown, exec failed,
\* and the answer is healthy: false with the state OPEN
C37_Witness ==
    /\ HealthChecked
    /\ ~toolLast.timedOut
    /\ toolLast.engine
    /\ toolLast.sub.kind = "throw"
    /\ breaker.state = "OPEN"
    /\ now - breaker.lastFailureTime <= breaker.timeoutMs
    /\ IsSuccessPayload(toolLast.outcome)
    /\ toolLast.outcome.payload.content[1].text[2] = "false"
    /\ toolLast.outcome.payload.content[1].text[4] = "OPEN"

\* the window of 'default' after one more admitted call at time t
OneMoreAdmitted(m, t) ==
    IF "default" \in DOMAIN m /\ t - m["default"].timestamp <= 60000
    THEN [timestamp |-> m["default"].timestamp, count |-> m["default"].count + 1]
    ELSE [timestamp |-> t, count |-> 1]

\* C38: every request that is admitted consumes one unit of the budget of the
\* one client 'default' before anything else is checked: whatever its tool
\* name and payload and whatever the breaker does with it, the step that
\* handles it adds one to the window of 'default', the only window there is.
C38_EveryAdmittedRequestCounts ==
    [][(now' = now /\ toolLast'.name # "none" /\ ~toolLast'.limited) =>
           (/\ DOMAIN requestCounts' = {"default"}
            /\ requestCounts'["default"] = OneMoreAdmitted(requestCounts, now))]_vars

\* five failed requests and one short-circuited by the OPEN breaker have used up the
\* whole budget of the window
C38_Witness ==
    /\ toolLast.name # "none"
    /\ ~toolLast.limited
    /\ toolLast.through = "no"
    /\ requestCounts["default"].count = RATE_LIMIT_MAX
    /\ breaker.state = "OPEN"

\* the breaker is OPEN and its cooldown has not elapsed
WithinCooldown == breaker.state = "OPEN" /\ now - breaker.lastFailureTime <= breaker.timeoutMs

\* C40, the count: a failure of the guarded operation of any of the three tools
\* adds one to the one failure count, and opens the breaker when the count
\* reaches the threshold.
C40_AnyToolFailureCounts ==
    [][(/\ now' = now
        /\ toolLast'.name \in GuardedTools
        /\ toolLast'.through = "yes"
        /\ IsErrorResponse(toolLast'.outcome)) =>
           (/\ breaker'.failures = breaker.failures + 1
            /\ breaker'.failures >= breaker'.failureThreshold => breaker'.state = "OPEN")]_vars

\* C40, the short circuit: while the breaker is OPEN within its cooldown, an
\* admitted request with valid arguments for any of the three tools is
\* answered with the breaker-open error and the engine is not called.
C40_OpenStopsAllThree ==
    [][(/\ now' = now
        /\ WithinCooldown
        /\ toolLast'.name \in GuardedTools
        /\ toolLast'.args = "valid"
        /\ ~toolLast'.limited) =>
           (/\ toolLast'.through = "no"
            /\ ~toolLast'.engine
            /\ toolLast'.error = [class |-> "Error", message |-> <<BreakerOpenError>>]
            /\ breaker' = breaker)]_vars

ClockKeepsAdvancing ==
    []<>(breaker.state # "OPEN" \/ now - breaker.lastFailureTime > breaker.timeoutMs)
\* from some point on every operation that is invoked completes successfully
OperationsSucceedFromSomePoint == <>[](cbLast.ev \notin FailureEvents)

\* C39: the breaker cannot stay OPEN forever: if the clock keeps advancing,
\* execute calls keep arriving and, from some point on, every invoked operation
\* completes successfully, then the breaker reaches CLOSED with failure count
\* 0 (and stays there).
C39_EventuallyClosed ==
    (ClockKeepsAdvancing /\ OperationsSucceedFromSomePoint) =>
        <>[](breaker.state = "CLOSED" /\ breaker.failures = 0)

\* the breaker was OPEN with more failures than the threshold, and the success of the
\* probe made after the cooldown has closed it
C39_Witness ==
    /\ cbLast.ev = "success"
    /\ cbLast.as = "probe"
    /\ breaker.state = "CLOSED"
    /\ breaker.failures = 0
    /\ breaker.lastFailureTime > 0
    /\ now - breaker.lastFailureTime > breaker.timeoutMs

====
